---- MODULE Spec2Model ----
(***************************************************************************)
(* Model of the G90-SDR control software:                                  *)
(*   - RigControl      (scripts/rig_control.py):    the CAT Gateway        *)
(*   - RigctldBridge   (scripts/rigctld_bridge.py): the protocol bridge    *)
(*   - FrequencySync   (scripts/frequency_sync.py): the synchronizer       *)
(*                                                                         *)
(* The specifications share the variables of this module:                 *)
(*   Spec / FairSpec : the Bridge (client handlers, PTT watchdog, stop())  *)
(*                     with a clock in seconds                             *)
(*   SpecGateway     : RigControl._safe_call and the PTT calls, with a     *)
(*                     clock in milliseconds                               *)
(*   SpecSync        : FrequencySync.sync_once cycles against the two      *)
(*                     endpoints                                           *)
(*   SpecCommand     : _process_command for one client and the RigControl  *)
(*                     operations for one caller, one at a time            *)
(***************************************************************************)
EXTENDS Integers, Sequences, FiniteSets, TLC

(***************************************************************************)
(* Bounds of the model                                                     *)
(***************************************************************************)
NumHandlers == 2      \* client connections the acceptor may serve
MaxCmdTime == 2       \* clients send their commands while now <= MaxCmdTime
MaxCmds == 3          \* commands the clients send to the Bridge altogether
NumCallers == 2       \* concurrent callers of the Gateway (SpecGateway)
ClockStep == 25       \* granularity of the millisecond clock (SpecGateway)
MaxClock == 100       \* last instant of the millisecond clock (SpecGateway)
MaxStopCalls == 2     \* calls of stop() on one Bridge
MaxFreq == 3          \* frequencies are 1..MaxFreq (SpecSync)

(***************************************************************************)
(* Program constants                                                       *)
(***************************************************************************)
ptt_timeout == 180            \* RigctldBridge.ptt_timeout, seconds
monitor_sleep == 1            \* time.sleep(1.0) of _ptt_monitor_loop
min_request_interval == 50    \* RigControl._min_request_interval, in ms

None == -1                    \* Python None for a time stamp or a frequency
StartTime == 1                \* time.time() is positive when the program runs
MaxTime == MaxCmdTime + ptt_timeout + 2 * monitor_sleep

Handlers == 1 .. NumHandlers
Callers == 1 .. NumCallers
Freqs == 1 .. MaxFreq

VARIABLES
    \* ---- RigctldBridge ----
    running,          \* self.running
    server_socket,    \* self.server_socket: "none" | "open"
    owns_rig,         \* self.owns_rig
    rig_connected,    \* self.rig.is_connected()
    ptt_on_time,      \* self.ptt_on_time: None or the stamp of the PTT-on
    now,              \* time.time(), seconds
    rig_ptt,          \* PTT state of the transceiver (last accepted set_ptt)
    h_pc,             \* position of each _handle_client thread
    wd_pc,            \* position of the _ptt_monitor_loop thread
    acc_pc,           \* position of the _server_loop thread
    keyed_since,      \* history: since when the transceiver has been keyed
                      \* without a break, or None
    last_start,       \* history: what the last start() returned and whether
                      \* it called connect() on the Gateway
    stop_pc,          \* position of the thread running stop()
    stop_log,         \* history: Gateway calls made by stop(), in order
    session_at_stop,  \* history: a PTT session was open when stop() began
    wd_forced_time,   \* history: when the watchdog first forced PTT off in
                      \* the current session
    cmds_received,    \* history: number of commands received from clients
    stop_calls,       \* history: number of calls of stop()
    \* ---- RigControl (SpecGateway) ----
    flrig_lock,          \* RigControl._flrig_lock: 0 or the caller holding it
    last_request_time,   \* RigControl._last_request_time, ms
    clock,               \* time.time(), ms
    g_pc,                \* position of each caller inside the Gateway
    g_wake,              \* end of the caller's rate-limit sleep
    in_flight,           \* callers whose remote request is in flight
    req_prev_start,      \* history: start of the request before the last
    req_last_start,      \* history: start of the last remote request
    \* ---- FrequencySync (SpecSync) ----
    rig_frequency,       \* endpoint: VFO of the transceiver (in SpecCommand
                         \* the float that set_vfo carried, in tenths)
    rig_mode,            \* endpoint: mode of the transceiver
    sdr_frequency,       \* endpoint: frequency of the display
    sdr_connected,       \* SDRControl._connected
    last_rig_frequency,  \* FrequencySync.last_rig_frequency
    last_sdr_frequency,  \* FrequencySync.last_sdr_frequency
    last_mode,           \* FrequencySync.last_mode
    cycle,               \* history: record of the sync_once cycle that has
                         \* just returned; NoCycle once the loop has come
                         \* back to its test or an endpoint has been retuned
    last_pushed,         \* history: the frequency that the last cycle
                         \* pushed to the display because the rig alone had
                         \* changed, or None
    prev_pushed,         \* history: the same for the cycle before the last
    last_failed,         \* history: the write that failed in the last
                         \* cycle, with what that cycle had read
    prev_failed,         \* history: the same for the cycle before the last
    sync_running,        \* FrequencySync.running
    sync_pc,             \* position of the sync_loop thread
    \* ---- one caller of the Bridge and of the Gateway (SpecCommand) ----
    rig_power,           \* endpoint: transmit power of the transceiver, watts
    last_op,             \* history: record of the command or Gateway
                         \* operation that has just returned
    last_set_frequency,  \* history: <<hz>> when the last set_frequency
                         \* returned True with hz, else PyNone
    last_set_mode        \* history: <<x>> when the last operation before
                         \* the m commands, if any, since was an accepted
                         \* `M x` with x not a PKT alias, else PyNone

bridge_vars == <<running, server_socket, owns_rig, rig_connected, ptt_on_time,
                 now, rig_ptt, h_pc, wd_pc, stop_pc, stop_log,
                 session_at_stop, wd_forced_time, cmds_received, stop_calls,
                 acc_pc, keyed_since, last_start>>
gw_vars == <<flrig_lock, last_request_time, clock, g_pc, g_wake, in_flight,
             req_prev_start, req_last_start>>
sync_vars == <<rig_frequency, rig_mode, sdr_frequency, sdr_connected,
               last_rig_frequency, last_sdr_frequency, last_mode, cycle,
               last_pushed, prev_pushed, last_failed, prev_failed,
               sync_running, sync_pc>>
cmd_vars == <<rig_power, last_op, last_set_frequency, last_set_mode>>
vars == <<bridge_vars, gw_vars, sync_vars, cmd_vars>>

(***************************************************************************)
(* RigctldBridge                                                           *)
(***************************************************************************)

\* Python truth value of an Optional[float]: None and 0.0 are false
Truthy(t) == t # None /\ t # 0

\* _ptt_monitor_loop: duration = time.time() - ptt_on_time;
\* if duration > self.ptt_timeout
PttExpired_slack(t, on_time) == t - on_time > ptt_timeout + monitor_sleep
PttExpired(t, on_time) == t - on_time > ptt_timeout

\* RigControl.set_ptt(state) with remote outcome ok (TRUE: the transceiver
\* accepted the request, FALSE: the request raised).  Returns TRUE/FALSE.
RigSetPttResult(ok) == rig_connected /\ ok

\* no start() yet
NoStart == [called |-> FALSE]
Started(result, connect) ==
    [called |-> TRUE, result |-> result, connect |-> connect]

\* history: the start of the unbroken keying after a set_ptt that left
\* the transceiver at ptt
KeyedSince(ptt) ==
    IF ~ptt THEN None
    ELSE IF rig_ptt /\ keyed_since # None THEN keyed_since
    ELSE now

BridgeInit ==
    /\ running = FALSE
    /\ server_socket = "none"
    /\ owns_rig \in BOOLEAN
    \* a RigControl of its own is connected by start(); a shared one was
    \* connected by its owner, or was not
    /\ rig_connected \in (IF owns_rig THEN {FALSE} ELSE BOOLEAN)
    /\ ptt_on_time = None
    /\ now = StartTime
    /\ rig_ptt = FALSE
    /\ h_pc = [h \in Handlers |-> "none"]
    /\ wd_pc = "none"
    /\ acc_pc = "none"
    /\ keyed_since = None
    /\ last_start = NoStart
    /\ stop_pc = "idle"
    /\ stop_log = <<>>
    /\ session_at_stop = FALSE
    /\ wd_forced_time = None
    /\ cmds_received = 0
    /\ stop_calls = 0

\* connect_to_rig(): a shared RigControl is taken as it is, connected or
\* not; a RigControl of its own is connected, with outcome connect_ok
connect_to_rig_always(connect_ok) == [value |-> connect_ok, connect |-> TRUE]
connect_to_rig(connect_ok) ==
    IF ~owns_rig THEN [value |-> rig_connected, connect |-> FALSE]
    ELSE [value |-> connect_ok, connect |-> TRUE]

\* start() on a Bridge that is not running: connect_to_rig(), bind and
\* listen, start the acceptor and the PTT monitor threads
Start(connect_ok, bind_ok) ==
    /\ ~running
    /\ stop_pc = "idle"
    /\ wd_pc = "none"
    /\ LET c == connect_to_rig(connect_ok)
       IN /\ rig_connected' = c.value
          /\ last_start' = Started(c.value /\ bind_ok, c.connect)
          /\ IF c.value /\ bind_ok
             THEN /\ running' = TRUE
                  /\ server_socket' = "open"
                  /\ wd_pc' = "check"
                  /\ acc_pc' = "accept"
             ELSE UNCHANGED <<running, server_socket, wd_pc, acc_pc>>
    /\ UNCHANGED <<owns_rig, ptt_on_time, now, rig_ptt, h_pc, stop_pc,
                   stop_log, session_at_stop, wd_forced_time, cmds_received,
                   stop_calls, keyed_since, gw_vars, sync_vars, cmd_vars>>

\* start() on a running Bridge: if self.running: return False
StartRunning ==
    /\ running
    /\ last_start' = Started(FALSE, FALSE)
    /\ UNCHANGED <<running, server_socket, owns_rig, rig_connected,
                   ptt_on_time, now, rig_ptt, h_pc, wd_pc, stop_pc, stop_log,
                   session_at_stop, wd_forced_time, cmds_received,
                   stop_calls, acc_pc, keyed_since, gw_vars, sync_vars,
                   cmd_vars>>

\* _server_loop: accept() a connection and start its _handle_client thread,
\* which enters its `while self.running` loop and blocks in recv()
Accept(h) ==
    /\ acc_pc = "accept"
    /\ running
    /\ server_socket = "open"
    /\ h_pc[h] = "none"
    /\ h_pc' = [h_pc EXCEPT ![h] = "recv"]
    /\ UNCHANGED <<running, server_socket, owns_rig, rig_connected,
                   ptt_on_time, now, rig_ptt, wd_pc, stop_pc, stop_log,
                   session_at_stop, wd_forced_time, cmds_received,
                   stop_calls, acc_pc, keyed_since, last_start, gw_vars, sync_vars, cmd_vars>>

\* _server_loop: the listening socket is closed, so accept() raises or
\* times out without a connection; `while self.running` is false and the
\* loop ends
ServerLoopEnd ==
    /\ acc_pc = "accept"
    /\ ~running
    /\ server_socket = "none"
    /\ acc_pc' = "done"
    /\ UNCHANGED <<running, server_socket, owns_rig, rig_connected,
                   ptt_on_time, now, rig_ptt, h_pc, wd_pc, stop_pc, stop_log,
                   session_at_stop, wd_forced_time, cmds_received,
                   stop_calls, keyed_since, last_start, gw_vars, sync_vars, cmd_vars>>

\* position of a handler after it has sent its reply: `while self.running`
HandlerLoop_forever == "recv"
HandlerLoop == IF running THEN "recv" ELSE "closed"

\* _handle_client receives `T 1` or `T 0`; _process_command calls
\* _set_ptt(ptt == 1), whose first step is self.rig.set_ptt(state)
HandlerSetPtt(h, state, ok) ==
    /\ h_pc[h] = "recv"
    /\ now <= MaxCmdTime
    /\ cmds_received < MaxCmds
    /\ cmds_received' = cmds_received + 1
    /\ IF RigSetPttResult(ok)
       THEN /\ rig_ptt' = state
            /\ h_pc' = [h_pc EXCEPT ![h] = IF state THEN "ptt_on_ret"
                                                    ELSE "ptt_off_ret"]
       ELSE /\ rig_ptt' = rig_ptt
            /\ h_pc' = [h_pc EXCEPT ![h] = HandlerLoop]
    /\ keyed_since' = KeyedSince(rig_ptt')
    /\ UNCHANGED <<running, server_socket, owns_rig, rig_connected,
                   ptt_on_time, now, wd_pc, stop_pc, stop_log,
                   session_at_stop, wd_forced_time, stop_calls, acc_pc, last_start, gw_vars, sync_vars, cmd_vars>>

\* _set_ptt(True) after set_ptt returned True: self.ptt_on_time = time.time()
HandlerPttOnStamp(h) ==
    /\ h_pc[h] = "ptt_on_ret"
    /\ ptt_on_time' = now
    /\ wd_forced_time' = None
    /\ h_pc' = [h_pc EXCEPT ![h] = HandlerLoop]
    /\ UNCHANGED <<running, server_socket, owns_rig, rig_connected, now,
                   rig_ptt, wd_pc, stop_pc, stop_log, session_at_stop, cmds_received,
                   stop_calls, acc_pc, keyed_since, last_start, gw_vars, sync_vars, cmd_vars>>

\* _set_ptt(False) after set_ptt returned True: self.ptt_on_time = None
HandlerPttOffClear(h) ==
    /\ h_pc[h] = "ptt_off_ret"
    /\ ptt_on_time' = None
    /\ wd_forced_time' = None
    /\ h_pc' = [h_pc EXCEPT ![h] = HandlerLoop]
    /\ UNCHANGED <<running, server_socket, owns_rig, rig_connected, now,
                   rig_ptt, wd_pc, stop_pc, stop_log, session_at_stop, cmds_received,
                   stop_calls, acc_pc, keyed_since, last_start, gw_vars, sync_vars, cmd_vars>>

\* _ptt_monitor_loop: `while self.running`, then the test of the session age
WdCheck ==
    /\ wd_pc = "check"
    /\ wd_pc' = IF ~running THEN "done"
                ELSE IF Truthy(ptt_on_time) /\ PttExpired(now, ptt_on_time)
                     THEN "call"
                     ELSE "sleep"
    /\ UNCHANGED <<running, server_socket, owns_rig, rig_connected,
                   ptt_on_time, now, rig_ptt, h_pc, stop_pc, stop_log,
                   session_at_stop, wd_forced_time, cmds_received,
                   stop_calls, acc_pc, keyed_since, last_start, gw_vars, sync_vars, cmd_vars>>

\* _ptt_monitor_loop: self._set_ptt(False), first step self.rig.set_ptt(False)
WdCall_giveUp(ok) ==
    /\ wd_pc = "call"
    /\ wd_forced_time' = IF wd_forced_time = None THEN now ELSE wd_forced_time
    /\ IF RigSetPttResult(ok)
       THEN /\ rig_ptt' = FALSE
            /\ wd_pc' = "ptt_off_ret"
            /\ ptt_on_time' = ptt_on_time
       ELSE /\ rig_ptt' = rig_ptt
            /\ wd_pc' = "sleep"
            /\ ptt_on_time' = None
    /\ keyed_since' = KeyedSince(rig_ptt')
    /\ UNCHANGED <<running, server_socket, owns_rig, rig_connected,
                   now, h_pc, stop_pc, stop_log,
                   session_at_stop, cmds_received,
                   stop_calls, acc_pc, last_start, gw_vars, sync_vars, cmd_vars>>
WdCall(ok) ==
    /\ wd_pc = "call"
    /\ wd_forced_time' = IF wd_forced_time = None THEN now ELSE wd_forced_time
    /\ IF RigSetPttResult(ok)
       THEN /\ rig_ptt' = FALSE
            /\ wd_pc' = "ptt_off_ret"
       ELSE /\ rig_ptt' = rig_ptt
            /\ wd_pc' = "sleep"
    /\ keyed_since' = KeyedSince(rig_ptt')
    /\ UNCHANGED <<running, server_socket, owns_rig, rig_connected,
                   ptt_on_time, now, h_pc, stop_pc, stop_log,
                   session_at_stop, cmds_received,
                   stop_calls, acc_pc, last_start, gw_vars, sync_vars, cmd_vars>>

\* _set_ptt(False) of the watchdog after set_ptt returned True
WdClear ==
    /\ wd_pc = "ptt_off_ret"
    /\ ptt_on_time' = None
    /\ wd_forced_time' = None
    /\ wd_pc' = "sleep"
    /\ UNCHANGED <<running, server_socket, owns_rig, rig_connected, now,
                   rig_ptt, h_pc, stop_pc, stop_log, session_at_stop, cmds_received,
                   stop_calls, acc_pc, keyed_since, last_start, gw_vars, sync_vars, cmd_vars>>

\* One second passes.  Commands and watchdog checks take less than a second,
\* so the clock moves only between them; time.sleep(1.0) of the monitor ends.
\* The clock saturates at limit.
TickTo(limit) ==
    /\ \A h \in Handlers : h_pc[h] \in {"none", "recv", "closed"}
    /\ wd_pc \in {"none", "sleep", "done"}
    /\ stop_pc \in {"idle", "join", "done"}
    /\ now' = IF now < limit THEN now + monitor_sleep ELSE now
    /\ wd_pc' = IF wd_pc = "sleep" THEN "check" ELSE wd_pc
    /\ UNCHANGED <<running, server_socket, owns_rig, rig_connected,
                   ptt_on_time, rig_ptt, h_pc, stop_pc, stop_log,
                   session_at_stop, wd_forced_time, cmds_received,
                   stop_calls, acc_pc, keyed_since, last_start, gw_vars, sync_vars, cmd_vars>>

\* stop(): running = False, close the listening socket
StopBegin ==
    /\ running
    /\ stop_pc = "idle"
    /\ stop_calls < MaxStopCalls
    /\ running' = FALSE
    /\ server_socket' = "none"
    /\ stop_pc' = "join"
    /\ session_at_stop' = Truthy(ptt_on_time)
    /\ stop_calls' = stop_calls + 1
    /\ UNCHANGED <<owns_rig, rig_connected, ptt_on_time, now, rig_ptt, h_pc,
                   wd_pc, stop_log, wd_forced_time, cmds_received,
                   acc_pc, keyed_since, last_start, gw_vars, sync_vars, cmd_vars>>

\* stop() on a Bridge that is not running: if not self.running: return
StopNotRunning_again ==
    /\ ~running
    /\ stop_calls < MaxStopCalls
    /\ stop_calls' = stop_calls + 1
    /\ stop_log' = stop_log \o <<"set_ptt_off", "disconnect">>
    /\ rig_connected' = FALSE
    /\ UNCHANGED <<running, server_socket, owns_rig, ptt_on_time, now,
                   rig_ptt, h_pc, wd_pc, stop_pc, session_at_stop,
                   wd_forced_time, cmds_received, acc_pc, keyed_since, last_start, gw_vars, sync_vars,
                   cmd_vars>>
StopNotRunning ==
    /\ ~running
    /\ stop_calls < MaxStopCalls
    /\ stop_calls' = stop_calls + 1
    /\ UNCHANGED <<running, server_socket, owns_rig, rig_connected,
                   ptt_on_time, now, rig_ptt, h_pc, wd_pc, stop_pc, stop_log,
                   session_at_stop, wd_forced_time, cmds_received, acc_pc, keyed_since, last_start, gw_vars,
                   sync_vars, cmd_vars>>

\* stop(): join(timeout=2.0) of the acceptor and of the monitor thread; the
\* monitor leaves its loop at its next wake-up, within the join timeout
StopJoin ==
    /\ stop_pc = "join"
    /\ acc_pc = "done"
    /\ wd_pc = "done"
    /\ stop_pc' = "ptt_off"
    /\ UNCHANGED <<running, server_socket, owns_rig, rig_connected,
                   ptt_on_time, now, rig_ptt, h_pc, wd_pc, stop_log,
                   session_at_stop, wd_forced_time, cmds_received,
                   stop_calls, acc_pc, keyed_since, last_start, gw_vars, sync_vars, cmd_vars>>

\* stop(): try: self._set_ptt(False), first step self.rig.set_ptt(False);
\* a False result (also when the remote request raised) falls through to
\* self.rig.disconnect()
StopPttOff_abort(ok) ==
    /\ stop_pc = "ptt_off"
    /\ stop_log' = Append(stop_log, "set_ptt_off")
    /\ IF RigSetPttResult(ok)
       THEN /\ rig_ptt' = FALSE
            /\ stop_pc' = "ptt_off_ret"
       ELSE /\ rig_ptt' = rig_ptt
            /\ stop_pc' = "done"
    /\ keyed_since' = KeyedSince(rig_ptt')
    /\ UNCHANGED <<running, server_socket, owns_rig, rig_connected,
                   ptt_on_time, now, h_pc, wd_pc, session_at_stop,
                   wd_forced_time, cmds_received,
                   stop_calls, acc_pc, last_start, gw_vars, sync_vars, cmd_vars>>
StopPttOff(ok) ==
    /\ stop_pc = "ptt_off"
    /\ stop_log' = Append(stop_log, "set_ptt_off")
    /\ IF RigSetPttResult(ok)
       THEN /\ rig_ptt' = FALSE
            /\ stop_pc' = "ptt_off_ret"
       ELSE /\ rig_ptt' = rig_ptt
            /\ stop_pc' = "disconnect"
    /\ keyed_since' = KeyedSince(rig_ptt')
    /\ UNCHANGED <<running, server_socket, owns_rig, rig_connected,
                   ptt_on_time, now, h_pc, wd_pc, session_at_stop,
                   wd_forced_time, cmds_received,
                   stop_calls, acc_pc, last_start, gw_vars, sync_vars, cmd_vars>>

\* _set_ptt(False) of stop() after set_ptt returned True
StopPttClear ==
    /\ stop_pc = "ptt_off_ret"
    /\ ptt_on_time' = None
    /\ wd_forced_time' = None
    /\ stop_pc' = "disconnect"
    /\ UNCHANGED <<running, server_socket, owns_rig, rig_connected, now,
                   rig_ptt, h_pc, wd_pc, stop_log, session_at_stop, cmds_received,
                   stop_calls, acc_pc, keyed_since, last_start, gw_vars, sync_vars, cmd_vars>>

\* stop(): self.rig.disconnect()
StopDisconnect ==
    /\ stop_pc = "disconnect"
    /\ rig_connected' = FALSE
    /\ stop_log' = Append(stop_log, "disconnect")
    /\ stop_pc' = "done"
    /\ UNCHANGED <<running, server_socket, owns_rig, ptt_on_time, now,
                   rig_ptt, h_pc, wd_pc, session_at_stop, wd_forced_time, cmds_received,
                   stop_calls, acc_pc, keyed_since, last_start, gw_vars, sync_vars, cmd_vars>>

Tick == TickTo(MaxTime)

BridgeNext ==
    \/ \E c \in BOOLEAN, b \in BOOLEAN : Start(c, b)
    \/ \E h \in Handlers : Accept(h)
    \/ ServerLoopEnd
    \/ \E h \in Handlers, st \in BOOLEAN, ok \in BOOLEAN : HandlerSetPtt(h, st, ok)
    \/ \E h \in Handlers : HandlerPttOnStamp(h)
    \/ \E h \in Handlers : HandlerPttOffClear(h)
    \/ WdCheck
    \/ \E ok \in BOOLEAN : WdCall(ok)
    \/ WdClear
    \/ Tick
    \/ StopBegin
    \/ StopNotRunning
    \/ StopJoin
    \/ \E ok \in BOOLEAN : StopPttOff(ok)
    \/ StopPttClear
    \/ StopDisconnect

\* The Bridge against a transceiver that accepts every PTT-off request that
\* reaches it
FairBridgeNext ==
    \/ \E c \in BOOLEAN, b \in BOOLEAN : Start(c, b)
    \/ \E h \in Handlers : Accept(h)
    \/ ServerLoopEnd
    \/ \E h \in Handlers, ok \in BOOLEAN : HandlerSetPtt(h, TRUE, ok)
    \/ \E h \in Handlers : HandlerSetPtt(h, FALSE, TRUE)
    \/ \E h \in Handlers : HandlerPttOnStamp(h)
    \/ \E h \in Handlers : HandlerPttOffClear(h)
    \/ WdCheck
    \/ WdCall(TRUE)
    \/ WdClear
    \/ Tick
    \/ StopBegin
    \/ StopNotRunning
    \/ StopJoin
    \/ StopPttOff(TRUE)
    \/ StopPttClear
    \/ StopDisconnect

\* The scheduler runs every started thread: the monitor, a handler that is
\* inside _set_ptt, the thread inside stop(); and time passes.  Clients and
\* the caller of stop() are free to do nothing.
BridgeFairness ==
    /\ WF_vars(Tick)
    /\ WF_vars(ServerLoopEnd)
    /\ WF_vars(WdCheck)
    /\ WF_vars(WdCall(TRUE))
    /\ WF_vars(WdClear)
    /\ \A h \in Handlers : WF_vars(HandlerPttOnStamp(h))
    /\ \A h \in Handlers : WF_vars(HandlerPttOffClear(h))
    /\ WF_vars(StopJoin)
    /\ WF_vars(StopPttOff(TRUE))
    /\ WF_vars(StopPttClear)
    /\ WF_vars(StopDisconnect)

\* The Bridge until shortly after the last command: the clock saturates
\* before a PTT session can reach the ceiling, so the monitor finds nothing
\* to force off
ShutdownHorizon == StartTime + MaxCmdTime + monitor_sleep
ShutdownNext ==
    \/ \E c \in BOOLEAN, b \in BOOLEAN : Start(c, b)
    \/ \E h \in Handlers : Accept(h)
    \/ ServerLoopEnd
    \/ \E h \in Handlers, st \in BOOLEAN, ok \in BOOLEAN : HandlerSetPtt(h, st, ok)
    \/ \E h \in Handlers : HandlerPttOnStamp(h)
    \/ \E h \in Handlers : HandlerPttOffClear(h)
    \/ WdCheck
    \/ TickTo(ShutdownHorizon)
    \/ StopBegin
    \/ StopNotRunning
    \/ StopJoin
    \/ \E ok \in BOOLEAN : StopPttOff(ok)
    \/ StopPttClear
    \/ StopDisconnect

\* The same Bridge with a caller that also calls start() while it runs
StartNext == ShutdownNext \/ StartRunning

\* The scheduler runs every started thread and time passes; clients and the
\* caller of stop() are free to do nothing.
ShutdownFairness ==
    /\ WF_vars(TickTo(ShutdownHorizon))
    /\ WF_vars(ServerLoopEnd)
    /\ WF_vars(WdCheck)
    /\ \A h \in Handlers : WF_vars(HandlerPttOnStamp(h))
    /\ \A h \in Handlers : WF_vars(HandlerPttOffClear(h))
    /\ WF_vars(StopJoin)
    /\ \A ok \in BOOLEAN : WF_vars(StopPttOff(ok))
    /\ WF_vars(StopPttClear)
    /\ WF_vars(StopDisconnect)

\* the Bridge is not part of SpecGateway and SpecSync
BridgeIdle ==
    /\ running = FALSE
    /\ server_socket = "none"
    /\ owns_rig = TRUE
    /\ rig_connected = FALSE
    /\ ptt_on_time = None
    /\ now = StartTime
    /\ rig_ptt = FALSE
    /\ h_pc = [h \in Handlers |-> "none"]
    /\ wd_pc = "none"
    /\ acc_pc = "none"
    /\ keyed_since = None
    /\ last_start = NoStart
    /\ stop_pc = "idle"
    /\ stop_log = <<>>
    /\ session_at_stop = FALSE
    /\ wd_forced_time = None
    /\ cmds_received = 0
    /\ stop_calls = 0

(***************************************************************************)
(* RigControl: the CAT Gateway                                             *)
(***************************************************************************)
\* operations that reach the endpoint through _safe_call: rig.get_xcvr (the
\* connect handshake), get_vfo/set_vfo, get_mode/set_mode, get_bw/set_bw,
\* get_power/set_power
SafeOps == {"get_xcvr", "get_vfo", "set_vfo", "get_mode", "set_mode",
            "get_bw", "set_bw", "get_power", "set_power"}
\* get_ptt() and set_ptt() call self.proxy.rig.get_ptt / set_ptt directly
PttOps == {"get_ptt", "set_ptt"}

GwInit ==
    /\ flrig_lock = 0
    /\ last_request_time = 0
    /\ clock = min_request_interval
    /\ g_pc = [c \in Callers |-> "idle"]
    /\ g_wake = [c \in Callers |-> 0]
    /\ in_flight = {}
    /\ req_prev_start = None
    /\ req_last_start = None

\* history: the start of the request before the one that starts now, kept
\* no further back than min_request_interval
PreviousStart ==
    IF req_last_start = None THEN None
    ELSE IF clock - req_last_start > min_request_interval
         THEN clock - min_request_interval
         ELSE req_last_start

\* a caller enters _safe_call(func): `with self._flrig_lock`
GwSafeCall(c, op) ==
    /\ g_pc[c] = "idle"
    /\ op \in SafeOps
    /\ g_pc' = [g_pc EXCEPT ![c] = "acquire"]
    /\ UNCHANGED <<flrig_lock, last_request_time, clock, g_wake, in_flight,
                   req_prev_start, req_last_start, bridge_vars, sync_vars, cmd_vars>>

\* _safe_call: the lock is acquired; current_time = time.time();
\* time_since_last = current_time - _last_request_time; if it is less than
\* _min_request_interval the caller sleeps for the difference
GwAcquire(c) ==
    /\ g_pc[c] = "acquire"
    /\ flrig_lock = 0
    /\ flrig_lock' = c
    /\ LET time_since_last == clock - last_request_time
       IN g_wake' = [g_wake EXCEPT ![c] =
                        IF time_since_last < min_request_interval
                        THEN clock + (min_request_interval - time_since_last)
                        ELSE clock]
    /\ g_pc' = [g_pc EXCEPT ![c] = "sleep"]
    /\ UNCHANGED <<last_request_time, clock, in_flight, req_prev_start,
                   req_last_start, bridge_vars, sync_vars, cmd_vars>>

\* _safe_call: after the sleep, result = func(*args): the remote request
\* starts
GwRequestStart(c) ==
    /\ g_pc[c] = "sleep"
    /\ clock >= g_wake[c]
    /\ in_flight' = in_flight \cup {c}
    /\ req_prev_start' = PreviousStart
    /\ req_last_start' = clock
    /\ g_pc' = [g_pc EXCEPT ![c] = "request"]
    /\ UNCHANGED <<flrig_lock, last_request_time, clock, g_wake,
                   bridge_vars, sync_vars, cmd_vars>>

\* _safe_call: the remote request returns or raises; on both paths
\* _last_request_time = time.time() and the `with` block releases the lock
GwRequestEnd_lockKept(c) ==
    /\ g_pc[c] = "request"
    /\ in_flight' = in_flight \ {c}
    /\ last_request_time' = clock
    /\ g_pc' = [g_pc EXCEPT ![c] = "idle"]
    /\ g_wake' = [g_wake EXCEPT ![c] = 0]
    /\ UNCHANGED <<flrig_lock, clock, req_prev_start, req_last_start,
                   bridge_vars, sync_vars, cmd_vars>>
GwRequestEnd(c) ==
    /\ g_pc[c] = "request"
    /\ in_flight' = in_flight \ {c}
    /\ last_request_time' = clock
    /\ flrig_lock' = 0
    /\ g_pc' = [g_pc EXCEPT ![c] = "idle"]
    /\ g_wake' = [g_wake EXCEPT ![c] = 0]
    /\ UNCHANGED <<clock, req_prev_start, req_last_start,
                   bridge_vars, sync_vars, cmd_vars>>

\* get_ptt() / set_ptt(state): self.proxy.rig.get_ptt() / set_ptt(ptt_value),
\* the remote request starts at once
GwPttStart(c, op) ==
    /\ g_pc[c] = "idle"
    /\ op \in PttOps
    /\ in_flight' = in_flight \cup {c}
    /\ req_prev_start' = PreviousStart
    /\ req_last_start' = clock
    /\ g_pc' = [g_pc EXCEPT ![c] = "ptt_request"]
    /\ UNCHANGED <<flrig_lock, last_request_time, clock, g_wake,
                   bridge_vars, sync_vars, cmd_vars>>

\* get_ptt() / set_ptt(state): the remote request returns or raises
GwPttEnd(c) ==
    /\ g_pc[c] = "ptt_request"
    /\ in_flight' = in_flight \ {c}
    /\ g_pc' = [g_pc EXCEPT ![c] = "idle"]
    /\ UNCHANGED <<flrig_lock, last_request_time, clock, g_wake,
                   req_prev_start, req_last_start, bridge_vars, sync_vars, cmd_vars>>

\* ClockStep milliseconds pass
ClockTick ==
    /\ clock + ClockStep <= MaxClock
    /\ clock' = clock + ClockStep
    /\ UNCHANGED <<flrig_lock, last_request_time, g_pc, g_wake, in_flight,
                   req_prev_start, req_last_start, bridge_vars, sync_vars, cmd_vars>>

\* ClockStep milliseconds pass at the end of the clock's range: the origin
\* of time moves forward by ClockStep instead.  A stamp that falls before
\* the origin is more than min_request_interval old: _last_request_time
\* and the wake-up times stay at the origin, the recorded request starts
\* are forgotten
Earlier(t) == IF t - ClockStep < 0 THEN 0 ELSE t - ClockStep
EarlierStart(t) == IF t = None \/ t - ClockStep < 0 THEN None
                   ELSE t - ClockStep
ClockTickShifted ==
    /\ clock + ClockStep > MaxClock
    /\ last_request_time' = Earlier(last_request_time)
    /\ g_wake' = [c \in Callers |-> Earlier(g_wake[c])]
    /\ req_prev_start' = EarlierStart(req_prev_start)
    /\ req_last_start' = EarlierStart(req_last_start)
    /\ UNCHANGED <<flrig_lock, clock, g_pc, in_flight,
                   bridge_vars, sync_vars, cmd_vars>>

GwNext ==
    \/ \E c \in Callers, op \in SafeOps : GwSafeCall(c, op)
    \/ \E c \in Callers : GwAcquire(c)
    \/ \E c \in Callers : GwRequestStart(c)
    \/ \E c \in Callers : GwRequestEnd(c)
    \/ \E c \in Callers, op \in PttOps : GwPttStart(c, op)
    \/ \E c \in Callers : GwPttEnd(c)
    \/ ClockTick
    \/ ClockTickShifted

(***************************************************************************)
(* FrequencySync: the synchronizer                                         *)
(***************************************************************************)
Modes == {"USB", "LSB"}      \* modes the transceiver takes in SpecSync
NoMode == "None"            \* Python None for a mode

\* outcome of one SDRControl.send_command: "ok" the display did it and sent
\* the expected reply; "reject" the display did nothing and sent another
\* reply; "io" sendall or recv raised
SdrOutcomes == {"ok", "reject", "io"}

\* SDRControl.send_command: _connected after a command with outcome o
SdrConnectedAfter_reconnect(conn, o) == o # "io"
SdrConnectedAfter(conn, o) == conn /\ o # "io"
\* SDRControl.send_command returned the reply the caller expects
SdrReplied(conn, o) == conn /\ o = "ok"

\* sync_once: the frequency branch, `if rig_changed and sdr_changed` /
\* `elif rig_changed` / `elif sdr_changed`
Resolve_displayWins(rig_changed, sdr_changed) ==
    IF sdr_changed THEN "sdr"
    ELSE IF rig_changed THEN "rig"
    ELSE "none"
Resolve_ignoreDisplay(rig_changed, sdr_changed) ==
    IF rig_changed /\ sdr_changed THEN "both"
    ELSE IF rig_changed THEN "rig"
    ELSE "none"
Resolve(rig_changed, sdr_changed) ==
    IF rig_changed /\ sdr_changed THEN "both"
    ELSE IF rig_changed THEN "rig"
    ELSE IF sdr_changed THEN "sdr"
    ELSE "none"

\* sync_once: `if mode_changed:` after the frequency branch, reached unless
\* the cycle has returned False
ModeSync_elif(branch, freq_failed, mode_changed) ==
    branch = "none" /\ mode_changed
ModeSync_afterFailure(branch, freq_failed, mode_changed) ==
    branch # "abort" /\ mode_changed
ModeSync_never(branch, freq_failed, mode_changed) == FALSE
ModeSync(branch, freq_failed, mode_changed) ==
    branch # "abort" /\ ~freq_failed /\ mode_changed

\* sync_once: the cursors <<last_rig_frequency, last_sdr_frequency>> after a
\* successful push of v
CursorsAfterPush_rigOnly(v) == <<v, last_sdr_frequency>>
CursorsAfterPush_displayOnly(v) == <<last_rig_frequency, v>>
CursorsAfterPush(v) == <<v, v>>

Write(op, f, m) == [op |-> op, freq |-> f, mode |-> m]

\* sync_once: the mode step, self.sdr.set_mode(rig_mode)
ModeWrite_toRig(rig_m) == Write("rig.set_mode", 0, rig_m)
ModeWrite(rig_m) == Write("sdr.set_mode", 0, rig_m)

\* the cycle read the rig, found its frequency changed and the display
\* frequency not changed
OnlyRigChanged(c) ==
    /\ c.rig # None
    /\ c.mode # NoMode
    /\ c.rig # c.last_rig
    /\ (c.sdr = None \/ c.sdr = c.last_sdr)

\* the record of the last cycle before any cycle has run
NoCycle == [ran |-> FALSE, raised |-> FALSE, rig |-> None, sdr |-> None, mode |-> NoMode,
            sdr_conn |-> FALSE, last_rig |-> 0,
            last_sdr |-> 0, last_mode |-> "", writes |-> <<>>, sent |-> <<>>,
            freq_ok |-> FALSE, result |-> FALSE]

\* sync_once: `if sdr_frequency is None:
\*                sdr_frequency = self.last_sdr_frequency`
DisplayFrequency_zero(sdr_read, cursor) ==
    IF sdr_read = None THEN 0 ELSE sdr_read
DisplayFrequency(sdr_read, cursor) ==
    IF sdr_read = None THEN cursor ELSE sdr_read

\* sync_once: `if rig_frequency is None or rig_mode is None: return False`
\* the propagation write that failed in cycle c, with the values c had read
NoFailure == [failed |-> FALSE]
FailedWrite(c) ==
    IF c.ran /\ ~c.result /\ c.writes # <<>>
    THEN [failed |-> TRUE, write |-> c.writes[Len(c.writes)],
          rig |-> c.rig, sdr |-> c.sdr, mode |-> c.mode]
    ELSE NoFailure

Aborted_frequencyOnly(rig_f, rig_m) == rig_f = None
Aborted(rig_f, rig_m) == rig_f = None \/ rig_m = NoMode

SyncInit ==
    /\ rig_frequency \in Freqs
    /\ rig_mode \in Modes
    /\ sdr_frequency \in Freqs
    /\ sdr_connected = TRUE
    /\ last_rig_frequency = 0
    /\ last_sdr_frequency = 0
    /\ last_mode = ""
    /\ cycle = NoCycle
    /\ last_pushed = None
    /\ prev_pushed = None
    /\ last_failed = NoFailure
    /\ prev_failed = NoFailure
    /\ sync_running = FALSE
    /\ sync_pc = "idle"

\* sync_once(): one cycle.  rf_ok, rm_ok: rig.get_frequency / rig.get_mode
\* succeed; o_get, o_setf, o_setm: outcomes of the display commands f, F, M;
\* rs_ok: rig.set_frequency succeeds.  An outcome is drawn only for an
\* operation that the cycle performs on a connected endpoint.
SyncOnce ==
    \E rf_ok \in BOOLEAN, rm_ok \in BOOLEAN,
       o_get \in IF sdr_connected THEN SdrOutcomes ELSE {"ok"} :
      LET rig_f == IF rf_ok THEN rig_frequency ELSE None
          sdr_read == IF SdrReplied(sdr_connected, o_get)
                      THEN sdr_frequency ELSE None
          c1 == SdrConnectedAfter(sdr_connected, o_get)
          rig_m == IF rm_ok THEN rig_mode ELSE NoMode
          aborted == Aborted(rig_f, rig_m)
          sdr_f == DisplayFrequency(sdr_read, last_sdr_frequency)
          rig_changed == rig_f # last_rig_frequency
          sdr_changed == sdr_f # last_sdr_frequency
          mode_changed == rig_m # last_mode
          branch == IF aborted THEN "abort"
                    ELSE Resolve(rig_changed, sdr_changed)
          push_sdr == branch \in {"both", "rig"}
          push_rig == branch = "sdr"
      IN
      \E o_setf \in IF push_sdr /\ c1 THEN SdrOutcomes ELSE {"ok"},
         rs_ok \in IF push_rig THEN BOOLEAN ELSE {TRUE} :
        LET sdr_setf_ok == push_sdr /\ SdrReplied(c1, o_setf)
            c2 == IF push_sdr THEN SdrConnectedAfter(c1, o_setf) ELSE c1
            rig_setf_ok == push_rig /\ rs_ok
            freq_failed == (push_sdr /\ ~sdr_setf_ok)
                           \/ (push_rig /\ ~rig_setf_ok)
            do_mode == ModeSync(branch, freq_failed, mode_changed)
        IN
        \E o_setm \in IF do_mode /\ c2 THEN SdrOutcomes ELSE {"ok"} :
          LET sdr_setm_ok == do_mode /\ SdrReplied(c2, o_setm)
              c3 == IF do_mode THEN SdrConnectedAfter(c2, o_setm) ELSE c2
              cursors == IF sdr_setf_ok THEN CursorsAfterPush(rig_f)
                         ELSE IF rig_setf_ok THEN CursorsAfterPush(sdr_f)
                         ELSE <<last_rig_frequency, last_sdr_frequency>>
              writes == (IF push_sdr
                         THEN <<Write("sdr.set_frequency", rig_f, "")>>
                         ELSE IF push_rig
                              THEN <<Write("rig.set_frequency", sdr_f, "")>>
                              ELSE <<>>)
                        \o (IF do_mode
                            THEN <<ModeWrite(rig_m)>>
                            ELSE <<>>)
              sent == (IF push_sdr THEN <<c1>>
                       ELSE IF push_rig THEN <<TRUE>> ELSE <<>>)
                      \o (IF do_mode THEN <<c2>> ELSE <<>>)
              rec == [ran |-> TRUE, raised |-> FALSE,
                      rig |-> rig_f, sdr |-> sdr_read, mode |-> rig_m,
                      sdr_conn |-> sdr_connected,
                      last_rig |-> last_rig_frequency,
                      last_sdr |-> last_sdr_frequency,
                      last_mode |-> last_mode,
                      writes |-> writes, sent |-> sent,
                      freq_ok |-> sdr_setf_ok \/ rig_setf_ok,
                      result |-> ~aborted /\ ~freq_failed
                                 /\ (do_mode => sdr_setm_ok)]
          IN /\ sdr_connected' = c3
             /\ sdr_frequency' = IF sdr_setf_ok THEN rig_f ELSE sdr_frequency
             /\ rig_frequency' = IF rig_setf_ok THEN sdr_f ELSE rig_frequency
             /\ last_rig_frequency' = cursors[1]
             /\ last_sdr_frequency' = cursors[2]
             /\ last_mode' = IF sdr_setm_ok THEN rig_m ELSE last_mode
             /\ cycle' = rec
             /\ last_pushed' = IF OnlyRigChanged(rec) /\ rec.freq_ok
                               THEN rec.rig ELSE None
             /\ prev_pushed' = last_pushed
             /\ last_failed' = FailedWrite(rec)
             /\ prev_failed' = last_failed
             /\ UNCHANGED <<rig_mode, bridge_vars, gw_vars, cmd_vars>>

\* the operator turns the dial of the transceiver
RigTune(f) ==
    /\ f # rig_frequency
    /\ rig_frequency' = f
    /\ cycle' = NoCycle
    /\ last_failed' = NoFailure
    /\ prev_failed' = NoFailure
    /\ UNCHANGED <<sync_running, sync_pc, rig_mode, sdr_frequency, sdr_connected,
                   last_rig_frequency, last_sdr_frequency, last_mode,
                   last_pushed, prev_pushed, bridge_vars, gw_vars, cmd_vars>>

\* the operator changes the mode of the transceiver
RigSetMode(m) ==
    /\ m # rig_mode
    /\ rig_mode' = m
    /\ cycle' = NoCycle
    /\ last_failed' = NoFailure
    /\ prev_failed' = NoFailure
    /\ UNCHANGED <<sync_running, sync_pc, rig_frequency, sdr_frequency, sdr_connected,
                   last_rig_frequency, last_sdr_frequency, last_mode,
                   last_pushed, prev_pushed, bridge_vars, gw_vars, cmd_vars>>

\* the user tunes the display
SdrTune(f) ==
    /\ f # sdr_frequency
    /\ sdr_frequency' = f
    /\ cycle' = NoCycle
    /\ last_failed' = NoFailure
    /\ prev_failed' = NoFailure
    /\ UNCHANGED <<sync_running, sync_pc, rig_frequency, rig_mode, sdr_connected,
                   last_rig_frequency, last_sdr_frequency, last_mode,
                   last_pushed, prev_pushed, bridge_vars, gw_vars, cmd_vars>>

\* start(): refused while running or while an endpoint is not connected;
\* else one initial sync_once, whatever it returns, then the loop thread.
\* The Gateway stays connected in this specification.
SyncStart ==
    /\ ~sync_running
    /\ sync_pc \in {"idle", "done"}
    /\ sdr_connected
    /\ SyncOnce
    /\ sync_running' = TRUE
    /\ sync_pc' = "while"

\* sync_loop: `while self.running:`
LoopTest_forever == TRUE
LoopTest == sync_running

SyncLoopWhile ==
    /\ sync_pc = "while"
    /\ sync_pc' = IF LoopTest THEN "cycle" ELSE "done"
    /\ cycle' = NoCycle
    /\ UNCHANGED <<rig_frequency, rig_mode, sdr_frequency, sdr_connected,
                   last_rig_frequency, last_sdr_frequency, last_mode,
                   last_pushed, prev_pushed, last_failed, prev_failed, sync_running,
                   bridge_vars, gw_vars, cmd_vars>>

\* sync_loop: `self.sync_once()`, its result ignored
SyncLoopCycle ==
    /\ sync_pc = "cycle"
    /\ SyncOnce
    /\ sync_pc' = "sleep"
    /\ UNCHANGED sync_running

\* sync_loop: `except Exception`: an exception that sync_once did not
\* handle, raised before the cycle wrote anything
SyncLoopExcept ==
    /\ sync_pc = "cycle"
    /\ sync_pc' = "backoff"
    /\ cycle' = [NoCycle EXCEPT !.ran = TRUE, !.raised = TRUE]
    /\ last_failed' = NoFailure
    /\ prev_failed' = last_failed
    /\ last_pushed' = None
    /\ prev_pushed' = last_pushed
    /\ UNCHANGED <<rig_frequency, rig_mode, sdr_frequency, sdr_connected,
                   last_rig_frequency, last_sdr_frequency, last_mode,
                   sync_running, bridge_vars, gw_vars, cmd_vars>>

\* sync_loop: time.sleep(self.sync_interval) and time.sleep(1.0) return
SyncLoopSleep ==
    /\ sync_pc \in {"sleep", "backoff"}
    /\ sync_pc' = "while"
    /\ UNCHANGED <<rig_frequency, rig_mode, sdr_frequency, sdr_connected,
                   last_rig_frequency, last_sdr_frequency, last_mode, cycle,
                   last_pushed, prev_pushed, last_failed, prev_failed, sync_running,
                   bridge_vars, gw_vars, cmd_vars>>

\* stop(): `if self.running: self.running = False`; the join returns when
\* the thread has exited or after 2 s
SyncStop ==
    /\ sync_running
    /\ sync_running' = FALSE
    /\ UNCHANGED <<rig_frequency, rig_mode, sdr_frequency, sdr_connected,
                   last_rig_frequency, last_sdr_frequency, last_mode, cycle,
                   last_pushed, prev_pushed, last_failed, prev_failed, sync_pc,
                   bridge_vars, gw_vars, cmd_vars>>

SyncNext ==
    \/ SyncStart
    \/ SyncLoopWhile
    \/ SyncLoopCycle
    \/ SyncLoopExcept
    \/ SyncLoopSleep
    \/ SyncStop
    \/ \E f \in Freqs : RigTune(f)
    \/ \E m \in Modes : RigSetMode(m)
    \/ \E f \in Freqs : SdrTune(f)

\* the synchronizer is not part of Spec and SpecGateway
SyncIdle ==
    /\ rig_frequency = 1
    /\ rig_mode = "USB"
    /\ sdr_frequency = 1
    /\ sdr_connected = FALSE
    /\ last_rig_frequency = 0
    /\ last_sdr_frequency = 0
    /\ last_mode = ""
    /\ cycle = NoCycle
    /\ last_pushed = None
    /\ prev_pushed = None
    /\ last_failed = NoFailure
    /\ prev_failed = NoFailure
    /\ sync_running = FALSE
    /\ sync_pc = "idle"

(***************************************************************************)
(* RigControl operations and RigctldBridge._process_command, one caller    *)
(***************************************************************************)

\* Optional[...] values: None is the empty tuple, a value v is <<v>>
PyNone == <<>>
Some(v) == <<v>>

\* str.upper() on the tokens and mode names that occur
upper_asIs(s) == s
upper(s) ==
    CASE s = "usb" -> "USB"
      [] s = "cwr" -> "CWR"
      [] s = "pktlsb" -> "PKTLSB"
      [] s = "cw-r" -> "CW-R"
      [] s = "digi" -> "DIGI"
      [] s = "f" -> "F"
      [] s = "m" -> "M"
      [] OTHER -> s

\* floats are given in tenths.  float(n) of an int n
float_of_int(n) == n * 10

\* int(x) of a float x given in tenths: truncation toward zero
int_floor(x) == x \div 10
int(x) == IF x >= 0 THEN x \div 10 ELSE -((-x) \div 10)

\* the transceiver behind FlRig, as the operations below read and write it;
\* the endpoint stores the frequency that set_vfo carried, a float
Rig == [frequency |-> rig_frequency, mode |-> rig_mode, ptt |-> rig_ptt,
        power |-> rig_power]

\* outcome of one XML-RPC request: answered, raised (fault, socket error),
\* or answered with text that the caller cannot convert
RemoteOutcomes == {"ok", "fault", "garbled"}

NoArg == "-"
Request(method, arg) == [method |-> method, arg |-> arg]

\* self._safe_call(self.proxy.rig.<method>, arg) or self.proxy.rig.<method>(arg):
\* one request; it raises on a fault, else the endpoint takes the state
\* after and the call returns response
XmlRpc(method, arg, o, response, r, after) ==
    IF o = "fault"
    THEN [raised |-> TRUE, value |-> PyNone,
          requests |-> <<Request(method, arg)>>, rig |-> r]
    ELSE [raised |-> FALSE, value |-> response,
          requests |-> <<Request(method, arg)>>, rig |-> after]

\* int(float(text)), bool(int(text)), float(text) on a reply: raises on text
\* that is not a number
Converted(c, o) ==
    IF ~c.raised /\ o = "garbled" THEN [c EXCEPT !.raised = TRUE] ELSE c

\* "return True" after the call
Then(c, v) == IF c.raised THEN c ELSE [c EXCEPT !.value = v]

\* try: ... except Exception: log; return fail
TryExcept_reraise(c, fail) == c
TryExcept_retry(c, fail) ==
    IF c.raised THEN [c EXCEPT !.raised = FALSE, !.value = fail,
                               !.requests = c.requests \o c.requests]
    ELSE c
TryExcept(c, fail) == IF c.raised THEN [c EXCEPT !.raised = FALSE, !.value = fail]
                      ELSE c

\* if not self.is_connected(): return fail    (no request)
Returned(v, r) == [raised |-> FALSE, value |-> v, requests |-> <<>>, rig |-> r]

get_frequency(r, conn, o) ==
    IF ~conn THEN Returned(PyNone, r)
    ELSE TryExcept(Converted(XmlRpc("rig.get_vfo", NoArg, o,
                                    Some(int(r.frequency)), r, r), o),
                   PyNone)

set_frequency_alwaysTrue(r, conn, frequency, o) ==
    IF ~conn THEN Returned(FALSE, r)
    ELSE Then(TryExcept(XmlRpc("rig.set_vfo", float_of_int(frequency), o,
                               TRUE, r,
                               [r EXCEPT !.frequency =
                                           float_of_int(frequency)]),
                        FALSE), TRUE)
set_frequency(r, conn, frequency, o) ==
    IF ~conn THEN Returned(FALSE, r)
    ELSE TryExcept(Then(XmlRpc("rig.set_vfo", float_of_int(frequency), o,
                               TRUE, r,
                               [r EXCEPT !.frequency =
                                           float_of_int(frequency)]),
                        TRUE),
                   FALSE)

get_mode(r, conn, o) ==
    IF ~conn THEN Returned(PyNone, r)
    ELSE TryExcept(XmlRpc("rig.get_mode", NoArg, o, Some(r.mode), r, r),
                   PyNone)

valid_modes == {"USB", "LSB", "CW", "AM", "FM", "CW-R", "RTTY", "RTTY-R"}

set_mode_unchecked(r, conn, mode, o) ==
    IF ~conn THEN Returned(FALSE, r)
    ELSE TryExcept(Then(XmlRpc("rig.set_mode", upper(mode), o, TRUE, r,
                               [r EXCEPT !.mode = upper(mode)]), TRUE),
                   FALSE)
set_mode(r, conn, mode, o) ==
    IF ~conn THEN Returned(FALSE, r)
    ELSE IF upper(mode) \notin valid_modes THEN Returned(FALSE, r)
    ELSE TryExcept(Then(XmlRpc("rig.set_mode", upper(mode), o, TRUE, r,
                               [r EXCEPT !.mode = upper(mode)]), TRUE),
                   FALSE)

get_power(r, conn, o) ==
    IF ~conn THEN Returned(PyNone, r)
    ELSE TryExcept(Converted(XmlRpc("rig.get_power", NoArg, o,
                                    Some(r.power), r, r), o), PyNone)

set_power(r, conn, power, o) ==
    IF ~conn THEN Returned(FALSE, r)
    ELSE IF ~(0 <= power /\ power <= 10) THEN Returned(FALSE, r)
    ELSE TryExcept(Then(XmlRpc("rig.set_power", power, o, TRUE, r,
                               [r EXCEPT !.power = power]), TRUE),
                   FALSE)

get_ptt(r, conn, o) ==
    IF ~conn THEN Returned(PyNone, r)
    ELSE TryExcept(Converted(XmlRpc("rig.get_ptt", NoArg, o,
                                    Some(r.ptt), r, r), o), PyNone)

set_ptt(r, conn, state, o) ==
    IF ~conn THEN Returned(FALSE, r)
    ELSE TryExcept(Then(XmlRpc("rig.set_ptt", IF state THEN 1 ELSE 0, o,
                               TRUE, r, [r EXCEPT !.ptt = state]), TRUE),
                   FALSE)

\* ---- RigctldBridge ----

\* self.mode_map, in insertion order: <<HamLib name, FlRig name>>
mode_map == << <<"USB", "USB">>, <<"LSB", "LSB">>, <<"CW", "CW">>,
               <<"CWR", "CW-R">>, <<"AM", "AM">>, <<"FM", "FM">>,
               <<"RTTY", "RTTY">>, <<"RTTYR", "RTTY-R">>,
               <<"PKTUSB", "USB">>, <<"PKTLSB", "LSB">> >>

\* {v: k for k, v in self.mode_map.items()}: the items in insertion order,
\* a later item replaces an earlier item with the same key
mode_map_reverse_notInverted == mode_map
mode_map_reverse ==
    [i \in 1 .. Len(mode_map) |-> <<mode_map[i][2], mode_map[i][1]>>]

\* d.get(k, default) on a dict given as its items in insertion order
DictGet_keyAsDefault(d, k, default) ==
    LET hits == {i \in 1 .. Len(d) : d[i][1] = k}
    IN IF hits = {} THEN k
       ELSE d[CHOOSE i \in hits : \A j \in hits : j <= i][2]
DictGet(d, k, default) ==
    LET hits == {i \in 1 .. Len(d) : d[i][1] = k}
    IN IF hits = {} THEN default
       ELSE d[CHOOSE i \in hits : \A j \in hits : j <= i][2]

\* float(token), in tenths, for the tokens that Python reads as a number
FloatTokens == {"14074000.000000", "7.9", "-5.5", "0", "1"}
float(tok) ==
    CASE tok = "14074000.000000" -> 140740000
      [] tok = "7.9" -> 79
      [] tok = "-5.5" -> -55
      [] tok = "0" -> 0
      [] tok = "1" -> 10

\* int(token): only a token that is an integer literal converts
IntTokens == {"0", "1", "2", "-1"}
int_of_token(tok) ==
    CASE tok = "0" -> 0 [] tok = "1" -> 1 [] tok = "2" -> 2 [] tok = "-1" -> -1

\* _process_command, T: the state passed to _set_ptt, `ptt == 1`
PttState_truthy(ptt) == ptt # 0
PttState(ptt) == ptt = 1

\* str(n) for the frequencies that occur; str(1 if ptt else 0)
str(n) ==
    CASE n = 14074000 -> "14074000"
      [] n = 7 -> "7"
      [] n = 0 -> "0"
      [] n = 1 -> "1"
      [] n = 2 -> "2"
      [] n = -5 -> "-5"
      [] n = -6 -> "-6"

RPRT_OK == <<"RPRT 0">>
RPRT_FAIL == <<"RPRT -1">>
\* _dump_state(): the fixed multi-line block (its first three lines)
dump_state == <<"0", "2", "2">>

\* a Gateway operation invoked by the Bridge, and what it returned (PyNone
\* when it raised)
Call(op, arg, g) ==
    [op |-> op, arg |-> arg, raised |-> g.raised,
     value |-> IF g.raised THEN PyNone ELSE g.value]

\* if <the operation succeeded>: return <success reply>
\* return "RPRT -1"
Reply_okOnFailure(success, reply) == IF success THEN reply ELSE RPRT_OK
Reply(success, reply) == IF success THEN reply ELSE RPRT_FAIL

\* what a command did: the reply, the Gateway operations invoked, the remote
\* requests these issued, the endpoint and ptt_on_time after it
Done(response, calls, requests, r, on_time) ==
    [response |-> response, calls |-> calls, requests |-> requests,
     rig |-> r, ptt_on_time |-> on_time]

\* _set_ptt(state) called by one thread at time t
_set_ptt(r, conn, on_time, t, state, o) ==
    LET g == set_ptt(r, conn, state, o)
    IN IF g.raised
       THEN \* except Exception: self.rig.set_ptt(False); ptt_on_time = None
            LET g2 == set_ptt(g.rig, conn, FALSE, o)
            IN [value |-> FALSE,
                calls |-> <<Call("set_ptt", state, g),
                            Call("set_ptt", FALSE, g2)>>,
                requests |-> g.requests \o g2.requests,
                rig |-> g2.rig,
                ptt_on_time |-> IF g2.raised THEN on_time ELSE None]
       ELSE [value |-> g.value,
             calls |-> <<Call("set_ptt", state, g)>>,
             requests |-> g.requests,
             rig |-> g.rig,
             ptt_on_time |-> IF ~g.value THEN on_time
                             ELSE IF state THEN t ELSE None]

\* else: logger.warning("Unknown command"); return "RPRT -1"
UnknownCommand_accepted(r, on_time) == Done(RPRT_OK, <<>>, <<>>, r, on_time)
UnknownCommand(r, on_time) == Done(RPRT_FAIL, <<>>, <<>>, r, on_time)

\* the bytes of one recv are a sequence of lines, a line a sequence of
\* tokens.  command.split(): the tokens of all the lines, split() taking a
\* newline for whitespace like a blank
RECURSIVE split(_)
split_lastLine(data) == data[Len(data)]
split(data) == IF data = <<>> THEN <<>>
               ELSE Head(data) \o split(Tail(data))

\* _process_command(command) with parts = command.split(), parts # <<>>;
\* o is the outcome of the remote request, if one is issued.  An exception
\* raised inside the try block gives RPRT -1.
_process_command(parts, r, conn, on_time, t, o) ==
    LET cmd == parts[1]
        failed == Done(RPRT_FAIL, <<>>, <<>>, r, on_time)
        ok == Done(RPRT_OK, <<>>, <<>>, r, on_time)
    IN
    CASE cmd = "f" ->
           LET g == get_frequency(r, conn, o)
           IN Done(Reply(~g.raised /\ g.value # PyNone,
                         <<str(g.value[1])>>),
                   <<Call("get_frequency", NoArg, g)>>, g.requests, g.rig,
                   on_time)
      [] cmd = "F" ->
           IF Len(parts) < 2 THEN failed
           ELSE IF parts[2] \notin FloatTokens THEN failed
           ELSE LET freq == int(float(parts[2]))
                    g == set_frequency(r, conn, freq, o)
                IN Done(Reply(~g.raised /\ g.value, RPRT_OK),
                        <<Call("set_frequency", freq, g)>>, g.requests,
                        g.rig, on_time)
      [] cmd = "m" ->
           LET g == get_mode(r, conn, o)
           IN Done(Reply(~g.raised /\ g.value # PyNone /\ g.value[1] # "",
                         <<DictGet(mode_map_reverse, g.value[1], "USB"),
                           "0">>),
                   <<Call("get_mode", NoArg, g)>>, g.requests, g.rig,
                   on_time)
      [] cmd = "M" ->
           IF Len(parts) < 2 THEN failed
           ELSE LET hamlib_mode == upper(parts[2])
                    flrig_mode == DictGet(mode_map, hamlib_mode, "USB")
                    g == set_mode(r, conn, flrig_mode, o)
                IN Done(Reply(~g.raised /\ g.value, RPRT_OK),
                        <<Call("set_mode", flrig_mode, g)>>, g.requests,
                        g.rig, on_time)
      [] cmd = "t" ->
           LET g == get_ptt(r, conn, o)
           IN Done(Reply(~g.raised /\ g.value # PyNone,
                         <<str(IF g.value[1] THEN 1 ELSE 0)>>),
                   <<Call("get_ptt", NoArg, g)>>, g.requests, g.rig,
                   on_time)
      [] cmd = "T" ->
           IF Len(parts) < 2 THEN failed
           ELSE IF parts[2] \notin IntTokens THEN failed
           ELSE LET ptt == int_of_token(parts[2])
                    p == _set_ptt(r, conn, on_time, t, PttState(ptt), o)
                IN Done(Reply(p.value, RPRT_OK),
                        p.calls, p.requests, p.rig, p.ptt_on_time)
      [] cmd = "v" -> Done(<<"VFOA">>, <<>>, <<>>, r, on_time)
      [] cmd = "V" -> ok
      [] cmd = "s" -> Done(<<"0", "VFOA">>, <<>>, <<>>, r, on_time)
      [] cmd = "S" -> ok
      [] cmd = "\\dump_state" -> Done(dump_state, <<>>, <<>>, r, on_time)
      [] cmd = "\\get_powerstat" -> Done(<<"1">>, <<>>, <<>>, r, on_time)
      [] cmd = "\\chk_vfo" -> ok
      [] cmd = "q" \/ cmd = "Q" -> ok
      [] OTHER -> UnknownCommand(r, on_time)

\* ---- one client of the Bridge, one direct caller of the Gateway ----

\* commands a client sends: the first token, then no or one argument
Commands == {"f", "F", "m", "M", "t", "T", "v", "V", "s", "S",
             "\\dump_state", "\\get_powerstat", "\\chk_vfo", "q", "Q",
             "Z", "fm", "\\get_info"}
FreqArgs == FloatTokens \cup {"abc"}
ModeArgs == {"USB", "LSB", "CW", "CWR", "AM", "FM", "RTTY", "RTTYR",
             "PKTUSB", "PKTLSB", "usb", "cwr", "pktlsb", "FOO"}
PttArgs == IntTokens \cup {"7.9", "abc"}
ArgsOf(cmd) == CASE cmd = "F" -> FreqArgs
                 [] cmd = "M" -> ModeArgs
                 [] cmd = "T" -> PttArgs
                 [] OTHER -> {"1"}
CommandParts == {<<cmd>> : cmd \in Commands}
                \cup UNION {{<<cmd, a>> : a \in ArgsOf(cmd)} : cmd \in Commands}

\* what one recv returns: one command line, or several lines that a client
\* wrote without waiting for the replies.  A recv of blank lines only is
\* skipped by `if not command: continue` and is left out.
PipelinedLines == {<<"f">>, <<"m">>, <<"F", "14074000.000000">>, <<"F">>,
                   <<"Z">>}
Reads == {<<parts>> : parts \in CommandParts}
         \cup {<<a, b>> : a, b \in PipelinedLines}
         \cup {<<<<"F", "7.9">>, <<"f">>, <<"m">>>>}

\* arguments of direct calls
GatewayOps == {"get_frequency", "set_frequency", "get_mode", "set_mode",
               "get_power", "set_power", "get_ptt", "set_ptt"}
GatewayArgs(op) ==
    CASE op = "set_frequency" -> {-5, 0, 7, 14074000}
      [] op = "set_mode" -> {"USB", "usb", "cw-r", "CW-R", "CWR", "DIGI",
                             "digi", ""}
      [] op = "set_power" -> {-1, 0, 10, 11}
      [] op = "set_ptt" -> BOOLEAN
      [] OTHER -> {NoArg}
\* the outcomes that differ for op: a setter ignores the text of the answer,
\* get_mode returns it as it is
OutcomesOf(op) == IF op \in {"get_frequency", "get_power", "get_ptt"}
                  THEN RemoteOutcomes ELSE {"ok", "fault"}

\* modes the transceiver may report that set_mode cannot select
OtherModes == {"DIGI", ""}

Gateway(op, arg, r, conn, o) ==
    CASE op = "get_frequency" -> get_frequency(r, conn, o)
      [] op = "set_frequency" -> set_frequency(r, conn, arg, o)
      [] op = "get_mode" -> get_mode(r, conn, o)
      [] op = "set_mode" -> set_mode(r, conn, arg, o)
      [] op = "get_power" -> get_power(r, conn, o)
      [] op = "set_power" -> set_power(r, conn, arg, o)
      [] op = "get_ptt" -> get_ptt(r, conn, o)
      [] op = "set_ptt" -> set_ptt(r, conn, arg, o)

NoOp == [kind |-> "none"]

cmd_frame == <<running, server_socket, owns_rig, now, h_pc, wd_pc, stop_pc,
               stop_log, session_at_stop, wd_forced_time, cmds_received,
               stop_calls, acc_pc, keyed_since, last_start,
               gw_vars, sdr_frequency, sdr_connected, last_rig_frequency,
               last_sdr_frequency, last_mode, cycle, last_pushed,
               prev_pushed, last_failed, prev_failed, sync_running, sync_pc>>

SetRig(r) ==
    /\ rig_frequency' = r.frequency
    /\ rig_mode' = r.mode
    /\ rig_ptt' = r.ptt
    /\ rig_power' = r.power

\* the external modes that are not PKT aliases
PlainModes == {"USB", "LSB", "CW", "CWR", "AM", "FM", "RTTY", "RTTYR"}

\* one iteration of _handle_client: a command is received, processed and
\* the response, if it is not empty, is sent with one sendall
ClientCommand(data, o) ==
    LET parts == split(data)
        d == _process_command(parts, Rig, rig_connected, ptt_on_time, now, o)
    IN /\ last_op.kind = "none"
       /\ d.requests = <<>> => o = "ok"
       /\ parts[1] \in {"F", "M", "T"} => o # "garbled"
       /\ SetRig(d.rig)
       /\ ptt_on_time' = d.ptt_on_time
       /\ last_op' = [kind |-> "command", data |-> data, parts |-> parts,
                      outcome |-> o,
                      connected |-> rig_connected, before |-> Rig,
                      response |-> d.response,
                      sent |-> IF d.response # <<>> THEN 1 ELSE 0,
                      calls |-> d.calls, requests |-> d.requests]
       /\ last_set_mode' =
            IF d.calls # <<>> /\ d.calls[1].op = "set_mode"
            THEN IF ~d.calls[1].raised /\ d.calls[1].value = TRUE
                      /\ parts[2] \in PlainModes
                 THEN Some(parts[2])
                 ELSE PyNone
            ELSE IF parts = <<"m">> THEN last_set_mode ELSE PyNone
       /\ last_set_frequency' =
            IF d.calls # <<>> /\ d.calls[1].op = "set_frequency"
            THEN IF ~d.calls[1].raised /\ d.calls[1].value = TRUE
                 THEN Some(d.calls[1].arg)
                 ELSE PyNone
            ELSE last_set_frequency
       /\ UNCHANGED <<rig_connected, cmd_frame>>

\* a direct call of a RigControl operation
GatewayCall(op, arg, o) ==
    LET g == Gateway(op, arg, Rig, rig_connected, o)
    IN /\ last_op.kind = "none"
       /\ g.requests = <<>> => o = "ok"
       /\ SetRig(g.rig)
       /\ last_op' = [kind |-> "gateway", op |-> op, arg |-> arg,
                      outcome |-> o, connected |-> rig_connected,
                      before |-> Rig, raised |-> g.raised,
                      value |-> g.value, requests |-> g.requests]
       /\ last_set_mode' = PyNone
       /\ last_set_frequency' =
            IF op = "set_frequency"
            THEN IF ~g.raised /\ g.value = TRUE THEN Some(arg) ELSE PyNone
            ELSE last_set_frequency
       /\ UNCHANGED <<rig_connected, ptt_on_time, cmd_frame>>

\* RigControl.connect(): get_xcvr through _safe_call
connect(o) ==
    /\ last_op.kind = "none"
    /\ ~rig_connected
    /\ rig_connected' = (o = "ok")
    /\ last_set_mode' = PyNone
    /\ last_op' = [kind |-> "connect", outcome |-> o, raised |-> FALSE,
                   value |-> (o = "ok"),
                   requests |-> <<Request("rig.get_xcvr", NoArg)>>]
    /\ UNCHANGED <<rig_frequency, rig_mode, rig_ptt, rig_power, ptt_on_time,
                   last_set_frequency, cmd_frame>>

\* RigControl.disconnect()
disconnect ==
    /\ last_op.kind = "none"
    /\ rig_connected
    /\ rig_connected' = FALSE
    /\ last_set_mode' = PyNone
    /\ last_op' = NoOp
    /\ UNCHANGED <<rig_frequency, rig_mode, rig_ptt, rig_power, ptt_on_time,
                   last_set_frequency, cmd_frame>>

\* the operator selects, at the transceiver, a mode outside valid_modes
RigSelectsMode(m) ==
    /\ last_op.kind = "none"
    /\ m # rig_mode
    /\ rig_mode' = m
    /\ last_set_mode' = PyNone
    /\ last_op' = NoOp
    /\ UNCHANGED <<rig_frequency, rig_ptt, rig_power, rig_connected,
                   ptt_on_time, last_set_frequency, cmd_frame>>

\* the reply is with the client, the value with the caller: the handler is
\* back at recv, the caller at its next call
NextOperation ==
    /\ last_op.kind # "none"
    /\ last_op' = NoOp
    /\ UNCHANGED <<rig_frequency, rig_mode, rig_ptt, rig_power, rig_connected,
                   ptt_on_time, last_set_frequency, last_set_mode,
                   cmd_frame>>

CommandNext ==
    \/ \E data \in Reads, o \in RemoteOutcomes : ClientCommand(data, o)
    \/ \E op \in GatewayOps :
         \E arg \in GatewayArgs(op), o \in OutcomesOf(op) :
           GatewayCall(op, arg, o)
    \/ \E o \in {"ok", "fault"} : connect(o)
    \/ disconnect
    \/ \E m \in OtherModes : RigSelectsMode(m)
    \/ NextOperation

\* the client and the direct caller are not part of the other specifications
CmdIdle ==
    /\ rig_power = 10
    /\ last_op = NoOp
    /\ last_set_frequency = PyNone
    /\ last_set_mode = PyNone

\* the transceiver is at 7 Hz, USB, 10 W; the synchronizer does not run
CmdInit ==
    /\ rig_frequency = float_of_int(7)
    /\ rig_mode = "USB"
    /\ sdr_frequency = 1
    /\ sdr_connected = FALSE
    /\ last_rig_frequency = 0
    /\ last_sdr_frequency = 0
    /\ last_mode = ""
    /\ cycle = NoCycle
    /\ last_pushed = None
    /\ prev_pushed = None
    /\ last_failed = NoFailure
    /\ prev_failed = NoFailure
    /\ sync_running = FALSE
    /\ sync_pc = "idle"
    /\ CmdIdle

(***************************************************************************)
(* Specifications                                                          *)
(***************************************************************************)
Init == BridgeInit /\ GwInit /\ SyncIdle /\ CmdIdle

Next == BridgeNext

Spec == Init /\ [][Next]_vars

\* The Bridge under a fair scheduler and a transceiver that accepts every
\* PTT-off request that reaches it
FairSpec == Init /\ [][FairBridgeNext]_vars /\ BridgeFairness

\* The Gateway and its callers
FairSpecShutdown == Init /\ [][ShutdownNext]_vars /\ ShutdownFairness

\* The Bridge with repeated calls of start()
SpecStart == Init /\ [][StartNext]_vars

InitGateway == BridgeIdle /\ GwInit /\ SyncIdle /\ CmdIdle

SpecGateway == InitGateway /\ [][GwNext]_vars

\* time passes; a sleep that is over returns and every remote request
\* returns or raises; a caller blocked on the lock is not passed over for
\* ever when the lock is released again and again
GwFairness ==
    /\ WF_vars(ClockTick \/ ClockTickShifted)
    /\ \A c \in Callers :
          /\ SF_vars(GwAcquire(c))
          /\ WF_vars(GwRequestStart(c))
          /\ WF_vars(GwRequestEnd(c))
          /\ WF_vars(GwPttEnd(c))

FairSpecGateway == InitGateway /\ [][GwNext]_vars /\ GwFairness

\* The synchronizer and its two endpoints
InitSync == BridgeIdle /\ GwInit /\ SyncInit /\ CmdIdle

SpecSync == InitSync /\ [][SyncNext]_vars

\* the loop thread is scheduled, its sleeps end, and every read and write of
\* a cycle returns or raises
SyncFairness ==
    /\ WF_vars(SyncLoopWhile)
    /\ WF_vars(SyncLoopCycle \/ SyncLoopExcept)
    /\ WF_vars(SyncLoopSleep)

FairSpecSync == InitSync /\ [][SyncNext]_vars /\ SyncFairness

\* one client of the Bridge and one direct caller of the Gateway, one
\* operation at a time
InitCommand == BridgeIdle /\ GwInit /\ CmdInit

SpecCommand == InitCommand /\ [][CommandNext]_vars

(***************************************************************************)
(* Properties of the Bridge                                                *)
(***************************************************************************)

\* no thread is between the Gateway call of _set_ptt and its update of
\* ptt_on_time
NoPttOperationInProgress ==
    /\ \A h \in Handlers : h_pc[h] \notin {"ptt_on_ret", "ptt_off_ret"}
    /\ wd_pc \notin {"call", "ptt_off_ret"}
    /\ stop_pc \notin {"ptt_off", "ptt_off_ret"}

\* C1: every PTT-on the transceiver accepts is eventually followed by a
\* PTT-off it accepts (checked under FairSpec: fair watchdog, every PTT-off
\* accepted); there is never more than the one session ptt_on_time
C1_PttOnEventuallyOff ==
    /\ [](ptt_on_time = None \/ ptt_on_time \in StartTime .. MaxTime)
    /\ (rig_ptt ~> ~rig_ptt)

C6_SharedGatewayStaysConnected ==
    (stop_pc = "done" /\ ~owns_rig) => rig_connected

\* C7: whenever no PTT operation is in progress and the last PTT request the
\* transceiver accepted was PTT-on, the session is active
C7_KeyedImpliesSession ==
    (NoPttOperationInProgress /\ rig_ptt) => Truthy(ptt_on_time)

(***************************************************************************)
(* Properties of the Gateway                                               *)
(***************************************************************************)

\* C3: no two remote CAT requests are in flight at the same time
C3_OneRequestInFlight == Cardinality(in_flight) <= 1

\* C4: the later of two consecutive remote requests starts at least
\* min_request_interval after the earlier one
C4_MinimumSpacing ==
    req_prev_start # None =>
        req_last_start - req_prev_start >= min_request_interval

(***************************************************************************)
(* Properties of the synchronizer                                          *)
(***************************************************************************)

\* the operations of the writes of a cycle
WriteOps(c) == {c.writes[i].op : i \in 1 .. Len(c.writes)}

\* all three reads of the cycle succeeded
ReadsOk(c) == c.rig # None /\ c.sdr # None /\ c.mode # NoMode

\* C8: a cycle whose reads succeed and that finds both frequencies different
\* from their cursors and from each other sends set-frequency(rig frequency)
\* to the display and no set-frequency to the rig; if the display write
\* succeeded, both cursors equal the rig frequency after the cycle
C8_BothChangedRigWins ==
    (/\ ReadsOk(cycle)
     /\ cycle.rig # cycle.last_rig
     /\ cycle.sdr # cycle.last_sdr
     /\ cycle.rig # cycle.sdr)
    => (/\ Len(cycle.writes) >= 1
        /\ cycle.writes[1] = Write("sdr.set_frequency", cycle.rig, "")
        /\ "rig.set_frequency" \notin WriteOps(cycle)
        /\ cycle.freq_ok => (/\ last_rig_frequency = cycle.rig
                             /\ last_sdr_frequency = cycle.rig))

\* a conflict cycle after an earlier successful cycle: both endpoints moved
\* away from their cursors to different values, the display write succeeded
C8_Witness ==
    /\ ReadsOk(cycle)
    /\ cycle.last_rig \in Freqs
    /\ cycle.rig # cycle.last_rig
    /\ cycle.sdr # cycle.last_sdr
    /\ cycle.rig # cycle.sdr
    /\ cycle.freq_ok
    /\ sdr_frequency = cycle.rig
    /\ last_rig_frequency = cycle.rig
    /\ last_sdr_frequency = cycle.rig

\* C9: a cycle whose reads succeed and that finds the display frequency
\* different from its cursor and the rig frequency equal to its cursor sends
\* set-frequency(display frequency) to the rig and no set-frequency to the
\* display; if the rig write succeeded, both cursors equal the display
\* frequency after the cycle
C9_DisplayChangedPushedToRig ==
    (/\ ReadsOk(cycle)
     /\ cycle.sdr # cycle.last_sdr
     /\ cycle.rig = cycle.last_rig)
    => (/\ Len(cycle.writes) >= 1
        /\ cycle.writes[1] = Write("rig.set_frequency", cycle.sdr, "")
        /\ "sdr.set_frequency" \notin WriteOps(cycle)
        /\ cycle.freq_ok => (/\ last_rig_frequency = cycle.sdr
                             /\ last_sdr_frequency = cycle.sdr))

\* a cycle found only the display changed and its write to the rig succeeded
C9_Witness ==
    /\ ReadsOk(cycle)
    /\ cycle.sdr # cycle.last_sdr
    /\ cycle.rig = cycle.last_rig
    /\ cycle.freq_ok
    /\ rig_frequency = cycle.sdr
    /\ last_rig_frequency = cycle.sdr

\* C10: a cycle that finds only the rig frequency changed sends
\* set-frequency(rig frequency) to the display and no set-frequency to the
\* rig; and when the next cycle reads the same rig frequency and reads the
\* pushed value from the display, it sends no set-frequency to either
\* endpoint
C10_NoEchoAfterRigChange ==
    /\ OnlyRigChanged(cycle)
       => (/\ Len(cycle.writes) >= 1
           /\ cycle.writes[1] = Write("sdr.set_frequency", cycle.rig, "")
           /\ "rig.set_frequency" \notin WriteOps(cycle))
    /\ (/\ prev_pushed # None
        /\ ReadsOk(cycle)
        /\ cycle.rig = prev_pushed
        /\ cycle.sdr = prev_pushed)
       => (/\ "rig.set_frequency" \notin WriteOps(cycle)
           /\ "sdr.set_frequency" \notin WriteOps(cycle))

\* a cycle pushed a rig-only change to the display and the next cycle read
\* the pushed value from both endpoints and wrote no frequency
C10_Witness ==
    /\ prev_pushed # None
    /\ ReadsOk(cycle)
    /\ cycle.rig = prev_pushed
    /\ cycle.sdr = prev_pushed
    /\ cycle.mode = cycle.last_mode
    /\ cycle.writes = <<>>

(***************************************************************************)
(* Properties of _process_command and of the RigControl operations         *)
(***************************************************************************)

\* the commands of the command table
TableCommands == {"f", "F", "m", "M", "t", "T", "v", "V", "s", "S",
                  "\\dump_state", "q", "Q"}

\* the command that has just been processed invoked no Gateway operation
\* and left the transceiver and the PTT session as they were
NoGatewayCall ==
    /\ last_op.calls = <<>>
    /\ last_op.requests = <<>>
    /\ Rig = last_op.before

GatewayCommands == {"f", "F", "m", "M", "t", "T"}
\* the HamLib mode names
ExternalModes == {mode_map[i][1] : i \in 1 .. Len(mode_map)}

\* the reply to the processed command c follows the table, where
\* empty_mode_fails tells whether an empty mode name returned by get_mode
\* counts as a failure of the Gateway operation
ReplyFollowsGateway(c, empty_mode_fails) ==
    IF c.calls = <<>> THEN c.response = RPRT_FAIL
    ELSE LET v == c.calls[1].value
             cmd == c.parts[1]
         IN CASE cmd = "f" ->
                   IF v = PyNone THEN c.response = RPRT_FAIL
                   ELSE c.response = <<str(v[1])>>
              [] cmd = "m" ->
                   IF v = PyNone \/ (empty_mode_fails /\ v = Some(""))
                   THEN c.response = RPRT_FAIL
                   ELSE /\ Len(c.response) = 2
                        /\ c.response[1] \in ExternalModes
                        /\ c.response[2] = "0"
              [] cmd = "t" ->
                   IF v = PyNone THEN c.response = RPRT_FAIL
                   ELSE c.response = <<IF v[1] THEN "1" ELSE "0">>
              [] OTHER ->
                   c.response = IF v THEN RPRT_OK ELSE RPRT_FAIL

\* C12 as stated: for the commands f, F, m, M, t, T the reply is RPRT -1 when
\* the Gateway operation returns None or False and the table's success
\* reply when it returns anything else; no other reply is produced
C12_ReplyFollowsGatewayResult ==
    (last_op.kind = "command" /\ last_op.parts[1] \in GatewayCommands)
    => ReplyFollowsGateway(last_op, FALSE)

\* C12 amended: the same, where for m an empty mode name returned by the
\* Gateway is answered RPRT -1 like a failure
C12_ReplyFollowsGatewayResultOrEmptyMode ==
    (last_op.kind = "command" /\ last_op.parts[1] \in GatewayCommands)
    => ReplyFollowsGateway(last_op, TRUE)

\* F was sent to a connected Gateway, the remote request raised, the Gateway
\* returned False and the reply was RPRT -1
C12_Witness ==
    /\ last_op.kind = "command"
    /\ last_op.parts[1] = "F"
    /\ last_op.connected
    /\ last_op.outcome = "fault"
    /\ Len(last_op.calls) = 1
    /\ last_op.calls[1].value = FALSE
    /\ last_op.response = RPRT_FAIL

\* C13: processing one received command invokes at most one Gateway
\* operation, which issues at most one remote request, and sends exactly one
\* reply to the client, whatever the command and the outcome of the request
C13_OneOperationOneReply ==
    last_op.kind = "command"
    => /\ Len(last_op.calls) <= 1
       /\ Len(last_op.requests) <= 1
       /\ last_op.response # <<>>
       /\ last_op.sent = 1

\* T 1 was processed, its one Gateway operation issued one remote request
\* that raised, and one reply was sent
C13_Witness ==
    /\ last_op.kind = "command"
    /\ last_op.parts = <<"T", "1">>
    /\ last_op.outcome = "fault"
    /\ Len(last_op.calls) = 1
    /\ Len(last_op.requests) = 1
    /\ last_op.sent = 1

\* the integer that F's argument stands for, truncated toward zero
TruncatedHz(tok) ==
    CASE tok = "14074000.000000" -> 14074000
      [] tok = "7.9" -> 7
      [] tok = "-5.5" -> -5
      [] tok = "0" -> 0
      [] tok = "1" -> 1

\* C14: F <x> with x a decimal number calls setFrequency exactly once with
\* x truncated toward zero and replies RPRT 0 exactly when the Gateway
\* reports success, else RPRT -1; F with a missing or non-numeric argument
\* replies RPRT -1 without any Gateway call
C14_SetFrequencyTruncates ==
    (last_op.kind = "command" /\ last_op.parts[1] = "F")
    => IF Len(last_op.parts) >= 2 /\ last_op.parts[2] \in FloatTokens
       THEN /\ Len(last_op.calls) = 1
            /\ last_op.calls[1].op = "set_frequency"
            /\ last_op.calls[1].arg = TruncatedHz(last_op.parts[2])
            /\ last_op.response =
                 IF last_op.calls[1].value THEN RPRT_OK ELSE RPRT_FAIL
       ELSE last_op.response = RPRT_FAIL /\ NoGatewayCall

\* F 14074000.000000 set the transceiver to 14074000 Hz and was answered
\* RPRT 0
C14_Witness ==
    /\ last_op.kind = "command"
    /\ last_op.parts = <<"F", "14074000.000000">>
    /\ Len(last_op.calls) = 1
    /\ Len(last_op.requests) = 1
    /\ last_op.calls[1].arg = 14074000
    /\ last_op.requests[1].arg = 140740000
    /\ last_op.response = RPRT_OK
    /\ rig_frequency = 140740000

\* the mode table of the command table, by the argument as the client
\* writes it
InternalModeFor(tok) ==
    CASE tok \in {"USB", "usb", "PKTUSB"} -> "USB"
      [] tok \in {"LSB", "PKTLSB", "pktlsb"} -> "LSB"
      [] tok = "CW" -> "CW"
      [] tok \in {"CWR", "cwr"} -> "CW-R"
      [] tok = "AM" -> "AM"
      [] tok = "FM" -> "FM"
      [] tok = "RTTY" -> "RTTY"
      [] tok = "RTTYR" -> "RTTY-R"

\* the arguments that are names of the external vocabulary, in some case
VocabularyArgs == {"USB", "LSB", "CW", "CWR", "AM", "FM", "RTTY", "RTTYR",
                   "PKTUSB", "PKTLSB", "usb", "cwr", "pktlsb"}

\* C15: M <x> for x in the external vocabulary, in any case, calls setMode
\* once with the internal mode of the mode table: USB, LSB, CW, AM, FM, RTTY
\* map to themselves, CWR to CW-R, RTTYR to RTTY-R, PKTUSB to USB and PKTLSB
\* to LSB; that mode is what the remote request carries
C15_SetModeFollowsModeTable ==
    (/\ last_op.kind = "command"
     /\ last_op.parts[1] = "M"
     /\ Len(last_op.parts) >= 2
     /\ last_op.parts[2] \in VocabularyArgs)
    => /\ Len(last_op.calls) = 1
       /\ last_op.calls[1].op = "set_mode"
       /\ last_op.calls[1].arg = InternalModeFor(last_op.parts[2])
       /\ \A i \in 1 .. Len(last_op.requests) :
            last_op.requests[i].arg = InternalModeFor(last_op.parts[2])
       /\ last_op.calls[1].value
          => rig_mode = InternalModeFor(last_op.parts[2])

\* M cwr selected CW-R at the transceiver and was answered RPRT 0
C15_Witness ==
    /\ last_op.kind = "command"
    /\ last_op.parts = <<"M", "cwr">>
    /\ Len(last_op.calls) = 1
    /\ last_op.calls[1].arg = "CW-R"
    /\ last_op.response = RPRT_OK
    /\ rig_mode = "CW-R"

\* the internal modes that have an inverse in the mode table
InvertibleModes == {"USB", "LSB", "CW", "CW-R", "AM", "FM", "RTTY", "RTTY-R"}

\* the reply to the processed m command c, for which the Gateway reported
\* mode, is <external mode>, 0 with the external mode an inverse of mode
\* under the mode table (CWR for CW-R, RTTYR for RTTY-R) and USB when mode
\* has no inverse
ModeReplyIsReverseImage(c, mode) ==
    /\ Len(c.response) = 2
    /\ c.response[2] = "0"
    /\ c.response[1] \in VocabularyArgs
    /\ mode = "CW-R" => c.response[1] = "CWR"
    /\ mode = "RTTY-R" => c.response[1] = "RTTYR"
    /\ mode \in InvertibleModes => InternalModeFor(c.response[1]) = mode
    /\ mode \notin InvertibleModes => c.response[1] = "USB"

C17_StopIdempotent ==
    /\ [][(~running /\ stop_calls' = stop_calls + 1)
          => UNCHANGED <<running, server_socket, owns_rig, rig_connected,
                         ptt_on_time, rig_ptt, h_pc, wd_pc, stop_pc,
                         stop_log>>]_vars
    /\ [](stop_pc = "done" => stop_log = <<"set_ptt_off", "disconnect">>)
    /\ [](Len(stop_log) <= 2)

\* stop() was called twice, one of the calls on the Bridge while it was not
\* running, and the Bridge has stopped
C17_Witness ==
    /\ stop_pc = "done"
    /\ stop_calls = 2
    /\ stop_log = <<"set_ptt_off", "disconnect">>

\* the operation that has just returned was refused by the Gateway itself:
\* it returned False, raised nothing, issued no remote request and left the
\* transceiver as it was
RefusedWithoutRequest ==
    /\ ~last_op.raised
    /\ last_op.value = FALSE
    /\ last_op.requests = <<>>
    /\ Rig = last_op.before

\* the mode names of the Gateway's enum, in the cases that occur
EnumModeArgs == {"USB", "usb", "LSB", "CW", "AM", "FM", "CW-R", "cw-r",
                 "RTTY", "RTTY-R"}

\* C18: setMode with a mode outside the fixed enum and setPower with watts
\* outside [0, 10] return failure without issuing any remote request and
\* leave the rig state unchanged, also when the Gateway is connected
C18_InvalidArgumentNeverReachesEndpoint ==
    /\ (/\ last_op.kind = "gateway"
        /\ last_op.op = "set_mode"
        /\ last_op.arg \notin EnumModeArgs)
       => RefusedWithoutRequest
    /\ (/\ last_op.kind = "gateway"
        /\ last_op.op = "set_power"
        /\ (last_op.arg < 0 \/ last_op.arg > 10))
       => RefusedWithoutRequest

\* set_power(11) on a connected Gateway was refused
C18_Witness ==
    /\ last_op.kind = "gateway"
    /\ last_op.connected
    /\ last_op.op = "set_power"
    /\ last_op.arg = 11
    /\ last_op.value = FALSE
    /\ last_op.requests = <<>>

\* C19: setFrequency(hz) with hz <= 0 returns failure without issuing a
\* remote request and leaves the rig frequency unchanged; the Bridge
\* commands F 0 and F -5.5 (hz = -5) are answered RPRT -1
C19_NonPositiveFrequencyRefused ==
    /\ (/\ last_op.kind = "gateway"
        /\ last_op.op = "set_frequency"
        /\ last_op.arg <= 0)
       => RefusedWithoutRequest
    /\ (/\ last_op.kind = "command"
        /\ last_op.parts \in {<<"F", "0">>, <<"F", "-5.5">>})
       => (/\ last_op.response = RPRT_FAIL
           /\ last_op.requests = <<>>
           /\ Rig = last_op.before)

\* the operations that return Optional values; the others return a bool
Getters == {"get_frequency", "get_mode", "get_power", "get_ptt"}

\* the Gateway operation that has just returned gave its failure value
ReturnedFailure ==
    IF last_op.op \in Getters THEN last_op.value = PyNone
    ELSE last_op.value = FALSE

\* C20: every Gateway operation returns to its caller and never raises; it
\* issues at most one remote request; on a Gateway that is not connected it
\* issues none and returns its failure value (None or False); when its remote
\* request raised it returns its failure value
C20_FailureIsAValue ==
    /\ last_op.kind = "gateway"
       => /\ ~last_op.raised
          /\ Len(last_op.requests) <= 1
          /\ ~last_op.connected
             => (last_op.requests = <<>> /\ ReturnedFailure)
          /\ (last_op.requests # <<>> /\ last_op.outcome = "fault")
             => ReturnedFailure
    /\ last_op.kind = "connect"
       => /\ ~last_op.raised
          /\ Len(last_op.requests) <= 1
          /\ last_op.outcome = "fault" => (last_op.value = FALSE /\ ~rig_connected)

\* get_ptt on a connected Gateway: its one remote request raised and it
\* returned None
C20_Witness ==
    /\ last_op.kind = "gateway"
    /\ last_op.op = "get_ptt"
    /\ last_op.connected
    /\ last_op.outcome = "fault"
    /\ Len(last_op.requests) = 1
    /\ ~last_op.raised
    /\ last_op.value = PyNone

\* a get_frequency that has just returned a value
FrequencyRead ==
    CASE last_op.kind = "gateway" /\ last_op.op = "get_frequency"
           -> last_op.value
      [] last_op.kind = "command" /\ last_op.calls # <<>>
           -> IF last_op.calls[1].op = "get_frequency"
              THEN last_op.calls[1].value ELSE PyNone
      [] OTHER -> PyNone

\* C21: against an endpoint that stores the value set_vfo carried, once
\* set_frequency(f1) has returned True, a get_frequency that returns a value
\* with no other set_frequency in between returns f1
C21_GetReturnsLastSet ==
    (last_set_frequency # PyNone /\ FrequencyRead # PyNone)
        => FrequencyRead = last_set_frequency

\* set_frequency(14074000) returned True on a transceiver that was at 7 Hz,
\* and the Gateway's next get_frequency has returned 14074000
C21_Witness ==
    /\ last_set_frequency = Some(14074000)
    /\ last_op.kind = "gateway"
    /\ last_op.op = "get_frequency"
    /\ last_op.before.frequency = float_of_int(14074000)
    /\ last_op.value = Some(14074000)

\* the last cycle returned at `return False` after its reads: the rig
\* frequency read or the rig mode read had failed
ReadAborted == cycle.ran /\ ~cycle.raised
               /\ (cycle.rig = None \/ cycle.mode = NoMode)

\* the three cursors are what they were when the last cycle began
CursorsUnchanged ==
    /\ last_rig_frequency = cycle.last_rig
    /\ last_sdr_frequency = cycle.last_sdr
    /\ last_mode = cycle.last_mode

\* C22: a cycle in which the rig frequency read or the rig mode read failed
\* issued no write to the rig or to the display, left the three cursors
\* unchanged and returned False, and the loop thread goes on to its next
\* test
C22_RigReadFailureAborts ==
    ReadAborted
        => /\ cycle.writes = <<>>
           /\ CursorsUnchanged
           /\ ~cycle.result
           /\ sync_pc \in {"sleep", "while"}

\* a cycle of the running loop read a changed rig frequency, failed to read
\* the rig mode, and the thread is in its sleep before the next test
C22_Witness ==
    /\ cycle.ran
    /\ cycle.rig \in Freqs
    /\ cycle.rig # cycle.last_rig
    /\ cycle.mode = NoMode
    /\ cycle.writes = <<>>
    /\ sync_running
    /\ sync_pc = "sleep"

\* the last cycle read the rig and failed to read the display frequency
DisplayReadFailed ==
    /\ cycle.ran /\ ~cycle.raised
    /\ cycle.rig # None
    /\ cycle.mode # NoMode
    /\ cycle.sdr = None

\* the last cycle called the write w
Issued(w) == \E i \in 1 .. Len(cycle.writes) : cycle.writes[i] = w

NoRigWrite ==
    \A i \in 1 .. Len(cycle.writes) : cycle.writes[i].op # "rig.set_frequency"

\* C23 as stated: a cycle whose display read failed issues no set-frequency
\* to the rig, and it calls the display's set-frequency with a changed rig
\* frequency and the display's set-mode with a changed rig mode
C23_DisplayReadFailurePushesBoth ==
    DisplayReadFailed
        => /\ NoRigWrite
           /\ cycle.rig # cycle.last_rig
              => Issued(Write("sdr.set_frequency", cycle.rig, ""))
           /\ cycle.mode # cycle.last_mode
              => Issued(Write("sdr.set_mode", 0, cycle.mode))

\* C23 amended: a cycle whose display read failed issues no set-frequency
\* to the rig; it calls the display's set-frequency with a changed rig
\* frequency, and it calls the display's set-mode with a changed rig mode
\* unless that set-frequency failed
C23_DisplayReadFailurePushesUnlessWriteFailed ==
    DisplayReadFailed
        => /\ NoRigWrite
           /\ cycle.rig # cycle.last_rig
              => Issued(Write("sdr.set_frequency", cycle.rig, ""))
           /\ (cycle.mode # cycle.last_mode
               /\ (cycle.rig = cycle.last_rig \/ cycle.freq_ok))
              => Issued(Write("sdr.set_mode", 0, cycle.mode))

\* the display answered the read with something that is not a frequency
\* while it was tuned away from its cursor; the cycle pushed the changed rig
\* frequency and the changed rig mode to it
C23_Witness ==
    /\ DisplayReadFailed
    /\ cycle.sdr_conn
    /\ cycle.last_sdr \in Freqs
    /\ sdr_frequency = cycle.rig
    /\ cycle.rig # cycle.last_rig
    /\ cycle.mode # cycle.last_mode
    /\ cycle.freq_ok
    /\ cycle.writes = <<Write("sdr.set_frequency", cycle.rig, ""),
                        Write("sdr.set_mode", 0, cycle.mode)>>

\* the three reads of the last cycle succeeded and the rig mode differed
\* from the mode cursor
ModeChangeRead ==
    /\ cycle.ran /\ ~cycle.raised
    /\ cycle.rig # None
    /\ cycle.sdr # None
    /\ cycle.mode # NoMode
    /\ cycle.mode # cycle.last_mode

\* the last write of the cycle is the set-mode with the rig mode, and it
\* went out on the display connection
ModeSent ==
    /\ cycle.writes # <<>>
    /\ cycle.writes[Len(cycle.writes)] = Write("sdr.set_mode", 0, cycle.mode)
    /\ cycle.sent[Len(cycle.sent)]

\* the last cycle issued a frequency write and it failed
FrequencyWriteFailed ==
    /\ cycle.writes # <<>>
    /\ cycle.writes[1].op \in {"sdr.set_frequency", "rig.set_frequency"}
    /\ ~cycle.freq_ok

\* C24 as stated: in every cycle whose reads succeeded and whose rig mode
\* differed from the mode cursor, a set-mode with the rig mode was sent to
\* the display, whatever the frequency branch and its outcome, and when
\* the cycle succeeded the mode cursor is the rig mode
C24_ModeAlwaysPushed ==
    ModeChangeRead
        => /\ ModeSent
           /\ cycle.result => last_mode = cycle.mode

\* C24 amended: the same for every cycle whose frequency branch did not
\* fail its write
C24_ModePushedUnlessFrequencyWriteFailed ==
    (ModeChangeRead /\ ~FrequencyWriteFailed)
        => /\ ModeSent
           /\ cycle.result => last_mode = cycle.mode

\* only the display had been retuned and the rig mode had changed: the
\* cycle set the rig frequency, then sent the set-mode, and the mode cursor
\* is the rig mode
C24_Witness ==
    /\ ModeChangeRead
    /\ cycle.last_rig = cycle.rig
    /\ cycle.sdr # cycle.last_sdr
    /\ cycle.writes = <<Write("rig.set_frequency", cycle.sdr, ""),
                        Write("sdr.set_mode", 0, cycle.mode)>>
    /\ cycle.result
    /\ cycle.last_mode \in Modes
    /\ last_mode = cycle.mode
    /\ last_mode # cycle.last_mode

\* the last cycle issued a set-mode and it failed
ModeWriteFailed ==
    /\ cycle.ran /\ ~cycle.raised
    /\ cycle.writes # <<>>
    /\ cycle.writes[Len(cycle.writes)].op = "sdr.set_mode"
    /\ ~cycle.result

\* the last cycle read what the cycle before it had read: the same rig
\* frequency and mode; the same display frequency when the write to retry
\* takes its value from the display; and no display frequency when the
\* write to retry is a set-mode of a cycle that had read none
ReadAgain ==
    /\ cycle.ran /\ ~cycle.raised
    /\ cycle.rig # None
    /\ cycle.rig = prev_failed.rig
    /\ cycle.mode # NoMode
    /\ cycle.mode = prev_failed.mode
    /\ prev_failed.write.op = "rig.set_frequency"
       => cycle.sdr = prev_failed.sdr
    /\ (prev_failed.write.op = "sdr.set_mode" /\ prev_failed.sdr = None)
       => cycle.sdr = None

\* C25: a cycle in which a propagation write failed issued no write after
\* it and left the cursors of the failed quantity unchanged, the loop thread
\* goes on to its next test, and the next cycle, the endpoints being as they
\* were and read as they were, calls the same write again
C25_FailedWriteRetried ==
    /\ (cycle.ran /\ FrequencyWriteFailed)
       => /\ Len(cycle.writes) = 1
          /\ last_rig_frequency = cycle.last_rig
          /\ last_sdr_frequency = cycle.last_sdr
          /\ ~cycle.result
          /\ sync_pc \in {"sleep", "while"}
    /\ ModeWriteFailed
       => /\ last_mode = cycle.last_mode
          /\ sync_pc \in {"sleep", "while"}
    /\ (prev_failed.failed /\ ReadAgain) => Issued(prev_failed.write)

\* the display rejected the set-frequency of one cycle of the running loop,
\* and the next cycle has issued the same set-frequency
C25_Witness ==
    /\ prev_failed.failed
    /\ prev_failed.write.op = "sdr.set_frequency"
    /\ prev_failed.rig \in Freqs
    /\ ReadAgain
    /\ cycle.sdr_conn
    /\ Issued(prev_failed.write)
    /\ sync_running
    /\ sync_pc = "sleep"

\* the loop thread has finished a cycle that returned False or raised, and
\* is in the sleep that follows it
CycleFailed ==
    /\ sync_pc \in {"sleep", "backoff"}
    /\ cycle.ran
    /\ ~cycle.result

\* C26: the loop thread leaves sync_loop only when the running flag is
\* false; a cycle that returned False or raised is followed by another
\* cycle unless the running flag is cleared; and the thread begins a cycle
\* only when it has found the running flag true, so that after stop() it
\* finishes the cycle in flight and begins no other
C26_LoopEndsOnlyOnStop ==
    /\ [][(sync_pc # "done" /\ sync_pc' = "done") => ~sync_running]_vars
    /\ (CycleFailed /\ sync_running) ~> (sync_pc = "cycle" \/ ~sync_running)
    /\ [][(sync_pc # "cycle" /\ sync_pc' = "cycle")
          => (sync_pc = "while" /\ sync_running)]_vars

\* the loop has failed a write in a cycle, gone on, and ended after stop()
C26_Witness ==
    /\ sync_pc = "done"
    /\ ~sync_running
    /\ last_failed.failed
    /\ prev_failed.failed

OperationOf(cmd) ==
    CASE cmd = "f" -> "get_frequency"
      [] cmd = "F" -> "set_frequency"
      [] cmd = "m" -> "get_mode"
      [] cmd = "M" -> "set_mode"
      [] cmd = "t" -> "get_ptt"
      [] cmd = "T" -> "set_ptt"
      [] OTHER -> ""

\* the recv that has just been handled held several command lines
SeveralCommands == last_op.kind = "command" /\ Len(last_op.data) >= 2

\* C28: a recv that holds several command lines is handled as one command:
\* the first token of the first line selects it, at most one Gateway
\* operation is invoked, that of the selected command, and one reply is sent
\* for the whole recv
C28_OneReadOneCommand ==
    SeveralCommands
        => /\ Len(last_op.calls) <= 1
           /\ \A i \in 1 .. Len(last_op.calls) :
                last_op.calls[i].op = OperationOf(last_op.data[1][1])
           /\ OperationOf(last_op.data[1][1]) = "" => last_op.response = RPRT_FAIL
           /\ last_op.sent = 1
           /\ last_op.sent < Len(last_op.data)

\* f and m arrived in one recv: get_frequency was the only Gateway operation
\* and the frequency was the only reply
C28_Witness ==
    /\ last_op.kind = "command"
    /\ last_op.data = <<<<"f">>, <<"m">>>>
    /\ last_op.outcome = "ok"
    /\ last_op.connected
    /\ Len(last_op.calls) = 1
    /\ last_op.calls[1].op = "get_frequency"
    /\ last_op.response = <<"7">>
    /\ last_op.sent = 1

\* C29: once stop() has cleared the running flag and closed the listening
\* socket, no handler enters recv() again, so that a handler takes at most
\* the one command it is waiting for and then leaves its loop, no
\* connection is accepted, and the acceptor loop and the PTT monitor loop
\* end
C29_LoopsEndAfterStop ==
    /\ [][\A h \in Handlers :
            (~running /\ h_pc'[h] = "recv") => h_pc[h] = "recv"]_vars
    /\ [][(~running /\ cmds_received' # cmds_received)
          => \E h \in Handlers : h_pc[h] = "recv" /\ h_pc'[h] # "recv"]_vars
    /\ (~running /\ acc_pc = "accept") ~> (acc_pc = "done")
    /\ (~running /\ wd_pc # "none") ~> (wd_pc = "done")

\* after stop() the acceptor and the monitor have ended, one handler has
\* left its loop after a command and the other still waits in recv()
C29_Witness ==
    /\ ~running
    /\ server_socket = "none"
    /\ stop_pc = "done"
    /\ acc_pc = "done"
    /\ wd_pc = "done"
    /\ h_pc[1] = "closed"
    /\ h_pc[2] = "recv"
    /\ cmds_received >= 1

\* C30: while the Bridge runs, once the transceiver has been keyed without a
\* break since keyed_since for ptt_timeout plus one monitor sleep and the
\* monitor has done its check of the current second, the monitor has issued
\* its forced PTT-off, no later than keyed_since + ptt_timeout +
\* monitor_sleep, whatever commands came in while it was keyed
C30_KeyingNeverOutlastsCeiling ==
    (/\ running
     /\ rig_ptt
     /\ keyed_since # None
     /\ wd_pc = "sleep"
     /\ now >= keyed_since + ptt_timeout + monitor_sleep)
    => (/\ wd_forced_time # None
        /\ wd_forced_time <= keyed_since + ptt_timeout + monitor_sleep)

\* C31: once stop() has issued its final forced PTT-off, no step delivers a
\* PTT-on to the transceiver: a transceiver that is not keyed then stays
\* not keyed, also after stop() has returned
C31_StopPttOffIsLast ==
    [][(stop_pc \in {"ptt_off_ret", "disconnect", "done"} /\ ~rig_ptt)
       => ~rig_ptt']_vars

\* C32: M x for an external mode x that is not a PKT alias, followed by m
\* with the Gateway reporting the mode last set, is answered x, 0; and for
\* every internal mode i, the external name of i maps back to i
C32_ModeRoundTrip ==
    /\ (/\ last_op.kind = "command"
        /\ last_op.parts = <<"m">>
        /\ last_set_mode # PyNone
        /\ last_op.calls[1].value = Some(rig_mode))
       => last_op.response = <<last_set_mode[1], "0">>
    /\ \A i \in valid_modes :
         DictGet(mode_map, DictGet(mode_map_reverse, i, "USB"), "USB") = i

\* the step is a PTT command of a client that the Gateway rejected: a
\* command was taken and no handler went on to the update of the session
RejectedPttCommand ==
    /\ cmds_received' # cmds_received
    /\ \A h \in Handlers :
         h_pc'[h] \in {"ptt_on_ret", "ptt_off_ret"} => h_pc'[h] = h_pc[h]

\* the step is a forced PTT-off of the monitor that the Gateway rejected
RejectedForcedOff == wd_pc = "call" /\ wd_pc' = "sleep"

\* C33: a PTT request that the Gateway rejects leaves the session as it was:
\* a rejected PTT-on or PTT-off of a client changes neither ptt_on_time nor
\* the transceiver, a rejected forced PTT-off leaves the expired session
\* active, and while the Bridge runs every check of the monitor that
\* follows a rejected forced PTT-off issues the forced PTT-off again
C33_RejectedPttKeepsSession ==
    /\ [][RejectedPttCommand
          => (ptt_on_time' = ptt_on_time /\ rig_ptt' = rig_ptt)]_vars
    /\ [][RejectedForcedOff
          => /\ ptt_on_time' = ptt_on_time
             /\ Truthy(ptt_on_time')
             /\ PttExpired(now', ptt_on_time')
             /\ rig_ptt' = rig_ptt]_vars
    /\ [][(/\ wd_pc = "check"
           /\ wd_pc' # "check"
           /\ running
           /\ wd_forced_time # None)
          => wd_pc' = "call"]_vars

\* the monitor issues its forced PTT-off a second time, one tick or more
\* after the first one was rejected, the session still being the same
C33_Witness ==
    /\ running
    /\ wd_pc = "call"
    /\ Truthy(ptt_on_time)
    /\ wd_forced_time # None
    /\ wd_forced_time < now

\* the step is a call of start() that returned
StartReturned == last_start' # last_start

\* C34: start() on a Bridge given an existing Gateway never calls connect()
\* on it, leaves it as it is and succeeds only if it was connected; start()
\* on a running Bridge fails and changes nothing; a start() that fails on a
\* Bridge that is not running leaves running false, no acceptor and no
\* monitor started
C34_StartAdoptsOrFails ==
    /\ [][(StartReturned /\ ~owns_rig)
          => /\ ~last_start'.connect
             /\ rig_connected' = rig_connected
             /\ last_start'.result => rig_connected]_vars
    /\ [][(StartReturned /\ running)
          => /\ ~last_start'.result
             /\ UNCHANGED <<running, server_socket, owns_rig, rig_connected,
                            ptt_on_time, now, rig_ptt, h_pc, wd_pc, acc_pc,
                            stop_pc, stop_log, cmds_received, stop_calls>>]_vars
    /\ [][(StartReturned /\ ~running /\ ~last_start'.result)
          => /\ ~running'
             /\ server_socket' = "none"
             /\ acc_pc' = "none"
             /\ wd_pc' = "none"]_vars

\* start() was called on the running Bridge of a shared Gateway and failed;
\* the acceptor and the monitor of the first start() are still there
C34_Witness ==
    /\ running
    /\ ~owns_rig
    /\ last_start = Started(FALSE, FALSE)
    /\ acc_pc = "accept"
    /\ wd_pc # "none"

\* C35: at every cycle boundary the two frequency cursors are equal: they
\* start equal and a cycle leaves both as they were or sets both to the
\* value it pushed, whatever reads and writes fail
C35_CursorsEqual ==
    /\ [](last_rig_frequency = last_sdr_frequency)
    /\ [][(last_rig_frequency' # last_rig_frequency
           \/ last_sdr_frequency' # last_sdr_frequency)
          => /\ cycle'.ran
             /\ cycle'.freq_ok
             /\ last_rig_frequency' = cycle'.writes[1].freq
             /\ last_sdr_frequency' = cycle'.writes[1].freq]_vars

\* a cycle found the display frequency changed, pushed it to the rig and set
\* both cursors, which an earlier cycle had set before, to it; its mode
\* write then failed
C35_Witness ==
    /\ cycle.ran
    /\ ~cycle.raised
    /\ cycle.last_rig # 0
    /\ cycle.freq_ok
    /\ ~cycle.result
    /\ cycle.writes[1].op = "rig.set_frequency"
    /\ last_rig_frequency = cycle.sdr
    /\ last_sdr_frequency = cycle.sdr
    /\ cycle.sdr # cycle.last_sdr

\* the last step was a cycle in which every read and every write succeeded
CleanCycle(c) ==
    /\ c.ran
    /\ ~c.raised
    /\ c.rig # None
    /\ c.mode # NoMode
    /\ c.sdr # None
    /\ c.result

\* both endpoints and both cursors hold one frequency and the mode cursor
\* the mode of the rig
Converged ==
    /\ rig_frequency = sdr_frequency
    /\ last_rig_frequency = rig_frequency
    /\ last_sdr_frequency = rig_frequency
    /\ last_mode = rig_mode

\* the step is one call of sync_once, by the loop or by start()
CycleStep ==
    \/ sync_pc = "cycle" /\ sync_pc' = "sleep"
    \/ ~sync_running /\ sync_running'

\* C36: from any state one cycle without a failure leaves the rig frequency,
\* the display frequency and both cursors equal and the mode cursor equal to
\* the rig mode; and a cycle without a failure that starts in such a state,
\* nothing having changed outside, issues no write and changes no cursor
C36_ConvergesThenQuiet ==
    /\ [](CleanCycle(cycle) => Converged)
    /\ [][(Converged /\ CycleStep /\ CleanCycle(cycle'))
          => /\ cycle'.writes = <<>>
             /\ UNCHANGED <<last_rig_frequency, last_sdr_frequency,
                            last_mode, rig_frequency, sdr_frequency>>]_vars

\* a cycle without a failure that found nothing to do: the cursors, set by
\* an earlier cycle, the rig and the display agree
C36_Witness ==
    /\ CleanCycle(cycle)
    /\ cycle.writes = <<>>
    /\ cycle.last_rig # 0
    /\ cycle.last_rig = cycle.rig
    /\ cycle.last_sdr = cycle.sdr
    /\ cycle.last_mode = cycle.mode
    /\ Converged

\* the writes of cycle c that go to the Gateway
GatewayWrites(c) ==
    {i \in 1 .. Len(c.writes) :
       c.writes[i].op \notin {"sdr.set_frequency", "sdr.set_mode"}}

\* C37: the only write a cycle issues to the Gateway is one set_frequency,
\* carrying the display frequency, in a cycle that read a display frequency
\* different from its cursor and a rig frequency equal to its cursor; a
\* cycle changes neither the mode, the PTT state nor the power of the rig,
\* and changes its frequency only by that write
C37_OnlyGatewayWriteIsSetFrequency ==
    /\ [](\A i \in GatewayWrites(cycle) :
            /\ cycle.writes[i] = Write("rig.set_frequency", cycle.sdr, "")
            /\ GatewayWrites(cycle) = {i}
            /\ cycle.sdr # None
            /\ cycle.sdr # cycle.last_sdr
            /\ cycle.rig = cycle.last_rig)
    /\ [][CycleStep
          => /\ UNCHANGED <<rig_mode, rig_ptt, rig_power>>
             /\ rig_frequency' # rig_frequency
                => (GatewayWrites(cycle') # {}
                    /\ rig_frequency' = cycle'.sdr)]_vars

\* a cycle wrote the display frequency to the rig and then the changed mode
\* to the display; the rig still has its mode
C37_Witness ==
    /\ cycle.ran
    /\ Len(cycle.writes) = 2
    /\ GatewayWrites(cycle) = {1}
    /\ cycle.writes[2].op = "sdr.set_mode"
    /\ rig_frequency = cycle.sdr
    /\ rig_mode = cycle.mode

\* the writes of cycle c that go to the display
DisplayWrites(c) ==
    {i \in 1 .. Len(c.writes) :
       c.writes[i].op \in {"sdr.set_frequency", "sdr.set_mode"}}

\* C38: once a send or receive on the display connection has failed, the
\* display client stays disconnected; a cycle that starts with it
\* disconnected gets no display frequency, sends none of its display writes
\* and none succeeds, writes nothing to the rig, leaves the display and the
\* three cursors as they were, and does not end the loop
C38_DisplayStaysDisconnected ==
    /\ [][~sdr_connected => ~sdr_connected']_vars
    /\ []((cycle.ran /\ ~cycle.raised /\ ~cycle.sdr_conn)
          => /\ cycle.sdr = None
             /\ \A i \in DisplayWrites(cycle) : ~cycle.sent[i]
             /\ DisplayWrites(cycle) # {} => ~cycle.result
             /\ ~cycle.freq_ok
             /\ GatewayWrites(cycle) = {})
    /\ [][(CycleStep /\ ~sdr_connected)
          => /\ UNCHANGED <<sdr_frequency, last_rig_frequency,
                            last_sdr_frequency, last_mode>>
             /\ sync_pc' = "sleep"]_vars
    /\ [][(sync_pc = "sleep" /\ sync_pc' # "sleep" /\ ~sdr_connected)
          => sync_pc' = "while"]_vars

\* the display connection failed in an earlier cycle; the loop ran another
\* cycle, which found the rig frequency and the mode changed, tried to push
\* the frequency, sent nothing, and sleeps before its next cycle
C38_Witness ==
    /\ sync_running
    /\ sync_pc = "sleep"
    /\ cycle.ran
    /\ ~cycle.raised
    /\ ~cycle.sdr_conn
    /\ cycle.rig # None
    /\ cycle.mode # NoMode
    /\ cycle.rig # cycle.last_rig
    /\ cycle.mode # cycle.last_mode
    /\ cycle.last_rig # 0
    /\ Len(cycle.writes) = 1
    /\ cycle.writes[1].op = "sdr.set_frequency"
    /\ ~cycle.sent[1]
    /\ last_rig_frequency = cycle.last_rig
    /\ sdr_frequency # cycle.rig

\* C39: for M x with any argument x the mode passed to the Gateway is a
\* member of the internal enum; for an x outside the external vocabulary it
\* is USB, so the command is never refused on account of x: it is answered
\* RPRT 0 with the rig set to USB whenever the Gateway, connected, gets its
\* request answered, and RPRT -1 only when the Gateway call itself fails
C39_UnknownModeBecomesUsb ==
    (/\ last_op.kind = "command"
     /\ last_op.parts[1] = "M"
     /\ Len(last_op.parts) >= 2)
    => /\ Len(last_op.calls) = 1
       /\ last_op.calls[1].op = "set_mode"
       /\ last_op.calls[1].arg \in valid_modes
       /\ upper(last_op.parts[2]) \notin VocabularyArgs
          => /\ last_op.calls[1].arg = "USB"
             /\ \A i \in 1 .. Len(last_op.requests) :
                  last_op.requests[i] = Request("rig.set_mode", "USB")
             /\ (last_op.connected /\ last_op.outcome = "ok")
                => (last_op.response = RPRT_OK /\ rig_mode = "USB")
             /\ last_op.response = RPRT_OK
                => (last_op.calls[1].value = TRUE /\ rig_mode = "USB")
             /\ last_op.response # RPRT_OK
                => (/\ last_op.response = RPRT_FAIL
                    /\ last_op.calls[1].value = FALSE)

\* M FOO on a rig in another mode than USB was answered RPRT 0 and the rig
\* is in USB
C39_Witness ==
    /\ last_op.kind = "command"
    /\ last_op.parts = <<"M", "FOO">>
    /\ last_op.before.mode # "USB"
    /\ last_op.response = RPRT_OK
    /\ rig_mode = "USB"

\* the processed command is T with an argument that int() converts
PttCommandWithInteger(c) ==
    /\ c.kind = "command"
    /\ c.parts[1] = "T"
    /\ Len(c.parts) >= 2
    /\ c.parts[2] \in IntTokens

\* the processed command is T with no argument or with one that int() does
\* not convert
PttCommandWithoutInteger(c) ==
    /\ c.kind = "command"
    /\ c.parts[1] = "T"
    /\ (Len(c.parts) < 2 \/ c.parts[2] \notin IntTokens)

\* C40: T n asks the Gateway for PTT-on only when n is the integer 1 and for
\* PTT-off for every other integer; an accepted PTT-off leaves the rig not
\* keyed and no session, an accepted PTT-on the rig keyed and the session
\* started now.  T with no argument or with an argument that is not an
\* integer is answered RPRT -1, calls no Gateway operation and changes
\* neither the rig nor the session
C40_OnlyOneKeys ==
    /\ [](PttCommandWithInteger(last_op)
          => /\ Len(last_op.calls) = 1
             /\ last_op.calls[1].op = "set_ptt"
             /\ last_op.calls[1].arg = (last_op.parts[2] = "1")
             /\ \A i \in 1 .. Len(last_op.requests) :
                  last_op.requests[i] =
                    Request("rig.set_ptt",
                            IF last_op.parts[2] = "1" THEN 1 ELSE 0)
             /\ last_op.calls[1].value
                => IF last_op.parts[2] = "1"
                   THEN rig_ptt /\ ptt_on_time = now
                        /\ last_op.response = RPRT_OK
                   ELSE ~rig_ptt /\ ptt_on_time = None
                        /\ last_op.response = RPRT_OK
             /\ (rig_ptt /\ ~last_op.before.ptt) => last_op.parts[2] = "1")
    /\ [](PttCommandWithoutInteger(last_op)
          => /\ last_op.response = RPRT_FAIL
             /\ last_op.calls = <<>>
             /\ last_op.requests = <<>>)
    /\ [][PttCommandWithoutInteger(last_op') /\ last_op.kind = "none"
          => UNCHANGED <<rig_ptt, ptt_on_time, rig_frequency, rig_mode,
                         rig_power>>]_vars

\* T 2 on a keyed rig with a session: the Gateway was asked for PTT-off, the
\* rig is not keyed and the session is gone
C40_Witness ==
    /\ PttCommandWithInteger(last_op)
    /\ last_op.parts[2] = "2"
    /\ last_op.before.ptt
    /\ last_op.calls[1].value = TRUE
    /\ ~rig_ptt
    /\ ptt_on_time = None

====
